---- MODULE Spec2Model ----
(***************************************************************************)
(* Encounter segmentation (Strategy B) and actor classification of the     *)
(* FFXIV log analyzer.                                                     *)
(*                                                                         *)
(* Text is modelled as sequences of one-character strings, so that         *)
(* stripServer and the regular expressions of the source are computed,     *)
(* not assumed.  A log line is a record of the "|"-separated fields the    *)
(* source reads (p[0], p[2], p[3], p[4], p[5], p[7]); its timestamp p[1]   *)
(* is a number of milliseconds, or BadTs when Date cannot parse it.        *)
(***************************************************************************)
EXTENDS Integers, Sequences, FiniteSets, TLC

\* ------------------------------------------------------------------ text

AlphaU == <<"A","B","C","D","E","F","G","H","I","J","K","L","M",
            "N","O","P","Q","R","S","T","U","V","W","X","Y","Z">>
AlphaL == <<"a","b","c","d","e","f","g","h","i","j","k","l","m",
            "n","o","p","q","r","s","t","u","v","w","x","y","z">>
UpperChars == {AlphaU[ix] : ix \in 1..26}
LowerChars == {AlphaL[ix] : ix \in 1..26}
\* the function f with all its values computed
Tabulated(f) == f @@ <<>>
LowerTable == Tabulated([c \in UpperChars |-> AlphaL[CHOOSE ix \in 1..26 : AlphaU[ix] = c]])

\* String.prototype.toLowerCase / the "i" flag of a RegExp
ToLower(s) ==
    Tabulated([ix \in 1..Len(s) |-> IF s[ix] \in UpperChars THEN LowerTable[s[ix]] ELSE s[ix]])

DigitChars == {"0", "1", "2", "3", "4", "5", "6", "7", "8", "9"}
\* \w of a RegExp
IsWordChar(c) == c \in UpperChars \/ c \in LowerChars \/ c \in DigitChars \/ c = "_"

\* String.prototype.trim (the only white space of the modelled text is " ")
Trim(s) ==
    LET inked == {ix \in 1..Len(s) : s[ix] # " "}
    IN  IF inked = {} THEN <<>>
        ELSE SubSeq(s, (CHOOSE ix \in inked : \A j \in inked : ix <= j),
                       (CHOOSE ix \in inked : \A j \in inked : j <= ix))

\* number of A-Z characters among the first n characters of s
CapCount(s, n) == Cardinality({ix \in 1..n : s[ix] \in UpperChars})

\* a cut at the third capital letter that is not trimmed
stripServer_CutOnly(name) ==
    LET third == {ix \in 1..Len(name) : name[ix] \in UpperChars /\ CapCount(name, ix) = 3}
    IN  IF third = {} THEN Trim(name)
        ELSE SubSeq(name, 1, (CHOOSE ix \in third : TRUE) - 1)
\* stripServer: cut the name at its third capital letter, then trim
stripServer(name) ==
    LET third == {ix \in 1..Len(name) : name[ix] \in UpperChars /\ CapCount(name, ix) = 3}
    IN  IF third = {} THEN Trim(name)
        ELSE Trim(SubSeq(name, 1, (CHOOSE ix \in third : TRUE) - 1))

HasPrefix(s, pre) == Len(s) >= Len(pre) /\ SubSeq(s, 1, Len(pre)) = pre
\* pat occurs in s at position i (1-based)
OccursAt(s, pat, ix) == ix >= 1 /\ ix + Len(pat) - 1 <= Len(s) /\ SubSeq(s, ix, ix + Len(pat) - 1) = pat
Includes(s, pat) == \E ix \in 1..(Len(s) + 1) : OccursAt(s, pat, ix)
\* first position at or after i that holds no white space (the end of \s*)
SkipSpaces(s, ix) ==
    CHOOSE j \in ix..(Len(s) + 1) :
        /\ j > Len(s) \/ s[j] # " "
        /\ \A m \in ix..(j - 1) : s[m] = " "
\* first position at or after i that holds no digit (the end of \d*)
SkipDigits(s, ix) ==
    CHOOSE j \in ix..(Len(s) + 1) :
        /\ j > Len(s) \/ s[j] \notin DigitChars
        /\ \A m \in ix..(j - 1) : s[m] \in DigitChars
\* \b after the match that ends at position i - 1
WordEndsBefore(s, ix) == ix > Len(s) \/ ~IsWordChar(s[ix])

\* ------------------------------------------------- phrases of the source

TxtDefeated == <<"d","e","f","e","a","t","e","d">>
TxtIsDefeated == <<" ","i","s"," ","d","e","f","e","a","t","e","d">>
TxtIsDefeatedNoSp == <<"i","s"," ","d","e","f","e","a","t","e","d">>
TxtYouAreDefeated == <<"y","o","u"," ","a","r","e"," ","d","e","f","e","a","t","e","d">>
TxtDefeats == <<"d","e","f","e","a","t","s">>
TxtIsRevived == <<" ","i","s"," ","r","e","v","i","v","e","d">>
TxtHasReturned == <<" ","h","a","s"," ","r","e","t","u","r","n","e","d"," ","t","o"," ","t","h","e"," ","b","a","t","t","l","e">>
TxtYou == <<"y","o","u">>
TxtRaise == <<"R","a","i","s","e">>
TxtResurrection == <<"R","e","s","u","r","r","e","c","t","i","o","n">>
TxtAscend == <<"A","s","c","e","n","d">>
TxtArise == <<"A","r","i","s","e">>
TxtUndeadRising == <<"U","n","d","e","a","d"," ","R","i","s","i","n","g">>
\* "carbuncle", "eos", "selene": the pet names nameValid rejects
PetWords ==
    { <<"c","a","r","b","u","n","c","l","e">>, <<"e","o","s">>, <<"s","e","l","e","n","e">> }
\* "you have entered", "the instance will shut down", "zone", "reset"
ZoneWords ==
    { <<"y","o","u"," ","h","a","v","e"," ","e","n","t","e","r","e","d">>,
      <<"t","h","e"," ","i","n","s","t","a","n","c","e"," ","w","i","l","l"," ","s","h","u","t"," ","d","o","w","n">>,
      <<"z","o","n","e">>,
      <<"r","e","s","e","t">> }

\* Only these actions are resurrections (splitEncountersByBossOrWipe)
raiseActions == {TxtRaise, TxtResurrection, TxtAscend, TxtArise, TxtUndeadRising}

\* The opcodes whose lines may open an encounter
ActionOps == {"21", "22", "15", "16", "38", "26"}

\* ------------------------------------------------ the modelled log text

NameP1 == <<"A","l"," ","B","o">>
NameP1Srv == <<"A","l"," ","B","o","G","i","l">>
NameP2 == <<"C","y"," ","D","i">>
NamePet == <<"E","o","s">>
NameAdd == <<"I","m","p">>
NameTitan == <<"T","i","t","a","n">>
NameBigOne == <<"T","h","e"," ","B","i","g"," ","O","n","e">>
Id1 == <<"1","0">>
Id2 == <<"1","1">>
IdPet == <<"1","2">>
IdBoss == <<"4","0">>
IdAdd == <<"4","1">>
TxtAttack == <<"A","t","t","a","c","k">>
TxtGainsRaise == <<" ","g","a","i","n","s"," ","t","h","e"," ","e","f","f","e","c","t"," ","o","f"," ","R","a","i","s","e",".">>
TxtYouAreDefeatedMsg == <<"Y","o","u"," ","a","r","e"," ","d","e","f","e","a","t","e","d",".">>
TxtEnteredMsg == <<"Y","o","u"," ","h","a","v","e"," ","e","n","t","e","r","e","d">>

\* line.split("|"): nf fields; a field that is missing or empty is <<>>
LogLine(op, p2, p3, p4, p5, p7) ==
    [op |-> op, nf |-> 8, p2 |-> p2, p3 |-> p3, p4 |-> p4, p5 |-> p5, p7 |-> p7]
\* a line without any "|": p.length = 1
Garbage == [op |-> "garbage", nf |-> 1, p2 |-> <<>>, p3 |-> <<>>, p4 |-> <<>>, p5 |-> <<>>, p7 |-> <<>>]
Fields(l) == {l.p2, l.p3, l.p4, l.p5, l.p7}

\* The lines a log body is drawn from, for a boss name b.
LineLib(b) == <<
    LogLine("21", Id1, NameP1Srv, <<>>, TxtAttack, b),          \* 1  P1 acts on the boss
    LogLine("22", IdBoss, b, <<>>, TxtAttack, NameP1),          \* 2  the boss acts on P1
    LogLine("21", Id2, NameP2, <<>>, TxtAttack, NameAdd),       \* 3  P2 acts on an add
    LogLine("00", <<>>, <<>>, NameP1 \o TxtIsDefeated \o <<".">>, <<>>, <<>>),   \* 4
    LogLine("00", <<>>, <<>>, NameP2 \o TxtIsDefeated \o <<".">>, <<>>, <<>>),   \* 5
    LogLine("00", <<>>, <<>>, TxtYouAreDefeatedMsg, <<>>, <<>>),                 \* 6
    LogLine("00", <<>>, <<>>, NameAdd \o TxtIsDefeated \o <<".">>, <<>>, <<>>),  \* 7
    LogLine("00", <<>>, <<>>, b \o TxtIsDefeated \o <<".">>, <<>>, <<>>),        \* 8
    LogLine("00", <<>>, <<>>, NameP1 \o <<" ">> \o TxtDefeats \o <<" ">> \o b \o <<".">>, <<>>, <<>>), \* 9
    LogLine("00", <<>>, <<>>, NameP1 \o TxtIsRevived \o <<"!">>, <<>>, <<>>),    \* 10
    LogLine("00", <<>>, <<>>, NameP1 \o TxtGainsRaise, <<>>, <<>>),              \* 11
    LogLine("21", Id2, NameP2, <<>>, TxtRaise, NameP1),         \* 12 P2 raises P1
    LogLine("01", Id1, TxtEnteredMsg, <<>>, <<>>, <<>>),        \* 13 zone change
    Garbage                                                     \* 14
  >>
NLib == Len(LineLib(NameTitan))
BossLib == <<NameTitan, NameBigOne>>

\* 03 lines (actor declarations) at the head of the log
HeaderLine(id, name) == LogLine("03", id, name, <<>>, <<>>, <<>>)
HeaderLib == <<
    <<HeaderLine(Id1, NameP1Srv), HeaderLine(Id2, NameP2), HeaderLine(IdPet, NamePet)>>,
    <<>>
  >>

\* ------------------------------------------------------- the matchers

Range(f) == {f[ix] : ix \in DOMAIN f}
MinOf(S) == CHOOSE x \in S : \A y \in S : x <= y
\* the element of a set of one
Only(S) == CHOOSE x \in S : TRUE

\* /^[\p{L} '\-]+$/u
NameChars(s) == s # <<>> /\ \A ix \in 1..Len(s) :
    s[ix] \in UpperChars \/ s[ix] \in LowerChars \/ s[ix] \in {" ", "'", "-"}
nameValid(name) ==
    /\ name # <<>>
    /\ NameChars(name)
    /\ Len(name) >= 3
    /\ \A pet \in PetWords : ~Includes(ToLower(name), pet)

\* parsePartyMembers: the valid names of the 03 lines among the first 200
\* lines, in order of first appearance, until 8 are collected
PartyLine(lines, j) ==
    lines[j].nf >= 4 /\ lines[j].op = "03" /\ nameValid(stripServer(lines[j].p3))
PartyFirsts(lines) ==
    {j \in 1..Len(lines) :
        /\ j <= 200 /\ PartyLine(lines, j)
        /\ \A m \in 1..(j - 1) :
              ~(PartyLine(lines, m) /\ stripServer(lines[m].p3) = stripServer(lines[j].p3))}
parsePartyMembers(lines) ==
    LET kept == {j \in PartyFirsts(lines) :
                    Cardinality({m \in PartyFirsts(lines) : m < j}) < 8}
    IN  [n \in 1..Cardinality(kept) |->
            stripServer(lines[CHOOSE j \in kept :
                                 Cardinality({m \in kept : m <= j}) = n].p3)]

\* idToName.get(actorId) ?? stripServer(actorId): the last 03 line of the id wins
idToNameGet(lines, actorId) ==
    LET hits == {ix \in 1..Len(lines) : ix <= 200 /\ lines[ix].op = "03" /\ lines[ix].p2 = actorId}
    IN  IF hits = {} THEN stripServer(actorId)
        ELSE stripServer(lines[CHOOSE ix \in hits : \A j \in hits : j <= ix].p3)

\* /^you are defeated\b/i
YouAreDefeated(f) ==
    HasPrefix(ToLower(f), TxtYouAreDefeated) /\ WordEndsBefore(f, Len(TxtYouAreDefeated) + 1)
\* match[1] of /^(.+?) is defeated\b/i, <<>> when the field does not match
IsDefeatedCapture(f) ==
    LET ks == {k \in 1..Len(f) : /\ OccursAt(ToLower(f), TxtIsDefeated, k + 1)
                                 /\ WordEndsBefore(f, k + 1 + Len(TxtIsDefeated))}
    IN  IF ks = {} THEN <<>> ELSE SubSeq(f, 1, MinOf(ks))
\* match[1] of /^(.+?) (?:is revived|has returned to the battle)/i
ReviveCapture(f) ==
    LET ks == {k \in 1..Len(f) : \/ OccursAt(ToLower(f), TxtIsRevived, k + 1)
                                 \/ OccursAt(ToLower(f), TxtHasReturned, k + 1)}
    IN  IF ks = {} THEN <<>> ELSE SubSeq(f, 1, MinOf(ks))
\* new RegExp(`defeats\\s+${boss}`, "i") on the whole line
DefeatsBoss(l, bossName) ==
    \E f \in Fields(l) : \E ix \in 1..Len(f) :
        LET j == ix + Len(TxtDefeats)
        IN  /\ OccursAt(ToLower(f), TxtDefeats, ix)
            /\ j <= Len(f) /\ f[j] = " "
            /\ OccursAt(ToLower(f), ToLower(bossName), SkipSpaces(f, j))
\* new RegExp(`^${boss}\\s+is defeated\\.?$`, "i") on a field
BossIsDefeated(s, bossName) ==
    LET j == Len(bossName) + 1
        rest == SubSeq(ToLower(s), SkipSpaces(s, j), Len(s))
    IN  /\ HasPrefix(ToLower(s), ToLower(bossName))
        /\ j <= Len(s) /\ s[j] = " "
        /\ rest \in {TxtIsDefeatedNoSp, TxtIsDefeatedNoSp \o <<".">>}
\* /You have entered|The instance will shut down|zone|reset/i on the whole line
ZonePhrase(l) ==
    \E f \in Fields(l) : \E t \in ZoneWords :
        Includes(ToLower(f), t)

\* ------------------------------------------- the line tests of Strategy B

\* ---- splitEncountersByBossOrWipe (party: parsePartyMembers(lines), whose
\* names are the keys of partyStatus; hdr: the 03 lines)

\* a start test that forgets the roster
splitOpens_AnyActor(l, head, party) == l.op \in ActionOps
\* the start test: an action opcode whose actor resolves to a party member
splitOpens(l, head, party) ==
    /\ l.op \in ActionOps
    /\ idToNameGet(head, l.p2) \in Range(party)
\* deathField: p[3] if it holds "defeated", else p[4] if it does, else null
deathField(l) ==
    IF l.p3 # <<>> /\ Includes(ToLower(l.p3), TxtDefeated) THEN l.p3
    ELSE IF l.p4 # <<>> /\ Includes(ToLower(l.p4), TxtDefeated) THEN l.p4
    ELSE <<>>
\* the name the death parsing looks up in partyStatus (<<>>: none)
splitDeathName(l, party) ==
    LET df == deathField(l)
    IN  IF l.op # "00" \/ df = <<>> THEN <<>>
        ELSE IF YouAreDefeated(df) THEN party[1]
        ELSE IF IsDefeatedCapture(df) # <<>> THEN stripServer(Trim(IsDefeatedCapture(df)))
        ELSE <<>>
\* a revive parsing that forgets the allow-list of actions
splitReviveName_AnyAction(l, party) ==
    IF l.op \in {"21", "22"} THEN stripServer(l.p7) ELSE <<>>
\* the name the revive parsing looks up in partyStatus (<<>>: none)
splitReviveName(l, party) ==
    IF l.op \in {"21", "22"} /\ l.p5 # <<>> /\ l.p5 \in raiseActions
    THEN IF ToLower(l.p7) = TxtYou THEN party[1] ELSE stripServer(l.p7)
    ELSE <<>>
\* the boss-defeat test
splitBossDefeat(l, bossName) == l.op = "00" /\ bossName # <<>> /\ DefeatsBoss(l, bossName)
\* the system/zone test
splitZone(l) == l.op = "01" /\ ZonePhrase(l)

\* ---- scanLogForEncounters

\* bossNames.some(boss => s && s.toLowerCase().includes(boss.toLowerCase()))
NamesBoss(s, bossNames) ==
    \E b \in Range(bossNames) : s # <<>> /\ Includes(ToLower(s), ToLower(b))
isBossAction(l, bossNames) ==
    /\ l.op \in ActionOps
    /\ \/ NamesBoss(IF l.p7 # <<>> THEN stripServer(l.p7) ELSE <<>>, bossNames)
       \/ NamesBoss(IF l.p3 # <<>> THEN stripServer(l.p3) ELSE <<>>, bossNames)
isBossKill(l, bossNames) ==
    /\ l.op = "00"
    /\ \/ \E b \in Range(bossNames) :
            \/ l.p3 # <<>> /\ BossIsDefeated(stripServer(l.p3), b)
            \/ l.p4 # <<>> /\ BossIsDefeated(stripServer(l.p4), b)
       \/ \E b \in Range(bossNames) : DefeatsBoss(l, b)
\* the name matchDeath returns for a field it matches
matchDeathName(f, party) ==
    IF YouAreDefeated(f) THEN party[1]
    ELSE LET deadName == stripServer(Trim(IsDefeatedCapture(f)))
             hits == {j \in 1..Len(party) : stripServer(party[j]) = deadName}
         IN  IF hits # {} THEN party[MinOf(hits)] ELSE deadName
\* matchDeath: the name of the first of p[3], p[4] that matches (<<>>: null)
matchDeath(l, party) ==
    IF l.op # "00" THEN <<>>
    ELSE IF l.p3 # <<>> /\ (YouAreDefeated(l.p3) \/ IsDefeatedCapture(l.p3) # <<>>)
    THEN matchDeathName(l.p3, party)
    ELSE IF l.p4 # <<>> /\ (YouAreDefeated(l.p4) \/ IsDefeatedCapture(l.p4) # <<>>)
    THEN matchDeathName(l.p4, party)
    ELSE <<>>
matchReviveName(f, party) ==
    LET revivedName == stripServer(Trim(ReviveCapture(f)))
        hits == {j \in 1..Len(party) : stripServer(party[j]) = revivedName}
    IN  IF hits # {} THEN party[MinOf(hits)] ELSE revivedName
\* matchRevive: only "<name> is revived" / "<name> has returned to the battle"
matchRevive(l, party) ==
    IF l.op # "00" THEN <<>>
    ELSE IF l.p3 # <<>> /\ ReviveCapture(l.p3) # <<>> THEN matchReviveName(l.p3, party)
    ELSE IF l.p4 # <<>> /\ ReviveCapture(l.p4) # <<>> THEN matchReviveName(l.p4, party)
    ELSE <<>>

\* ---- what the loops read of a line, computed once per header, boss and line
PartyOf == Tabulated([h \in DOMAIN HeaderLib |-> Tabulated(parsePartyMembers(HeaderLib[h]))])
LineTests(l, head, party, bossName) ==
    [nf |-> l.nf,
     op |-> l.op,
     opens |-> splitOpens(l, head, party),
     sDeath |-> IF party # <<>> THEN splitDeathName(l, party) ELSE <<>>,
     sRevive |-> IF party # <<>> THEN splitReviveName(l, party) ELSE <<>>,
     sKill |-> splitBossDefeat(l, bossName),
     zone |-> splitZone(l),
     bAction |-> isBossAction(l, <<bossName>>),
     bKill |-> isBossKill(l, <<bossName>>),
     mDeath |-> IF party # <<>> /\ matchDeath(l, party) # <<>>
                THEN stripServer(matchDeath(l, party)) ELSE <<>>,
     mRevive |-> IF party # <<>> /\ matchRevive(l, party) # <<>>
                 THEN stripServer(matchRevive(l, party)) ELSE <<>>]
LineTable ==
    Tabulated([c \in (DOMAIN HeaderLib) \X (DOMAIN BossLib) \X (1..NLib) |->
                  LineTests(LineLib(BossLib[c[2]])[c[3]], HeaderLib[c[1]],
                            PartyOf[c[1]], BossLib[c[2]])])
LineInfo(h, b, k) == LineTable[<<h, b, k>>]

\* ------------------------------------------------------------ Strategy B
\* One run of either implementation over a log: the 03 lines of a header,
\* then up to MaxLines body lines read one per step.  The loop's position
\* is the line cur at index i; each step also fixes the line after it,
\* which the wipe test of splitEncountersByBossOrWipe reads ahead.

MaxLines == 4                   \* body lines in a log
MaxBadTs == 1                   \* body lines whose timestamp does not parse
T0 == 1000                      \* timestamp (ms) of the first body line
WallClock == 900000             \* what new Date() reads during the run
Deltas == {1000, 3000, 10000}   \* ms between one timestamp and the next
MinLinesChoices == {2, 8}       \* the minLines argument
Null == -1                      \* null / undefined
BadTs == -2                     \* a timestamp field that Date cannot parse
NoTs == -3                      \* no timestamp field (a line without "|")
NaN == -4                       \* Date.parse of BadTs
WIPE_GRACE_MS == 3000
PULL_DEBOUNCE_MS == 10000
minDurMs == 8000
NoNextGap == 9999

VARIABLES impl, hdr, boss, minLines, pc, i, cur, clock, badTs,
          inEncounter, partyAlive, encounterStartTs, encounterStart,
          currentLen, currentLastTs, wipePendingSince, lastWipeMs,
          deathLog, reviveLog, encounters, ev, outcome

\* the state of one classifyActors call
VARIABLES ver, actors, npcs, classified, cpc, at, run, firstRun

logVars == <<impl, hdr, boss, minLines, pc, i, cur, clock, badTs,
             inEncounter, partyAlive, encounterStartTs, encounterStart,
             currentLen, currentLastTs, wipePendingSince, lastWipeMs,
             deathLog, reviveLog, encounters, ev, outcome>>
clsVars == <<ver, actors, npcs, classified, cpc, at, run, firstRun>>

\* the state of one splitByDamageIdle call
VARIABLES idleLines, idxs, cuts, fights, ipc
idleVars == <<idleLines, idxs, cuts, fights, ipc>>

\* the state of the parse-log edge function: the module's _uploadId
\* (moduleUploadId), the uploads and encounters tables, and of each request
\* under way its position (hpc), the ids it collected and its response
VARIABLES moduleUploadId, uploads, encRows, nFights, failAt, hpc, encounterIds, response
handlerVars == <<moduleUploadId, uploads, encRows, nFights, failAt, hpc, encounterIds, response>>

\* the state of the damage scan of parse-encounter: the encounter's lines,
\* the loop's position, the actor map (statOrder: its keys in insertion
\* order) and the events collected
VARIABLES dmgLog, dpos, actorStats, statOrder, events, dpc
dmgVars == <<dmgLog, dpos, actorStats, statOrder, events, dpc>>

\* the state of one parsePartyMembers call: the log (a line is named by
\* its place in PartyLib), the loop's position and the Set party
VARIABLES partyLog, ppos, partySet, ppc
partyVars == <<partyLog, ppos, partySet, ppc>>

\* the boss-HP part of an encounter's emission by scanLogForEncounters: the
\* log (a line is named by its place in HpLib), the encounter's start and
\* end lines, encounterBoss, and what is computed of them
VARIABLES hpLog, hpStart, hpEnd, encounterBoss, bossHpEntries, hpSummary, bpc
hpVars == <<hpLog, hpStart, hpEnd, encounterBoss, bossHpEntries, hpSummary, bpc>>

\* the instance and boss names of Strategy B: the log (a line is named by
\* its place in NameLines), the implementation, the names it resolved
\* before its loop, bossNames, and the names of an encounter it pushed
VARIABLES nmLog, nmImpl, resolved, guessed, pushed, npc
nameVars == <<nmLog, nmImpl, resolved, guessed, pushed, npc>>

\* the parse-encounter handler serving two requests for one encounter: the
\* encounter's row, the events its log gives (ready), the rows of the
\* tables actors, events and metrics, and for each request its position,
\* the row it fetched, its idByName, the sums it selected, the step at
\* which it is made to fail, and the calls the client has left
VARIABLES encRec, ready, actorRows, eventRows, metricRows,
          epc, fetched, idByName, sums, efail, calls
encVars == <<encRec, ready, actorRows, eventRows, metricRows,
             epc, fetched, idByName, sums, efail, calls>>

\* the variables of the other functions of the program
\* the state of the calls of stripServer on one name: the name, what the
\* first call returns, and what the call on that result returns
VARIABLES rawName, stripped, restripped, spc
stripVars == <<rawName, stripped, restripped, spc>>

moreVars == <<handlerVars, dmgVars, partyVars, hpVars, nameVars, encVars, stripVars>>

vars == <<logVars, clsVars, idleVars, moreVars>>
inputVars == <<impl, hdr, boss, minLines>>

partyArray == PartyOf[hdr]
EndOfLog == [k |-> 0, ts |-> NoTs]
CurLine == LineInfo(hdr, boss, cur.k)

\* toMs: the milliseconds of a timestamp field, null if there is none
toMs(ts) == IF ts >= 0 THEN ts ELSE Null
\* Date.parse(getTimestamp(line) || "1970-01-01T00:00:00Z")
DateParse(ts) == IF ts >= 0 THEN ts ELSE IF ts = BadTs THEN NaN ELSE 0
\* a - b < c in JavaScript: false as soon as a or b is NaN
LessThanAfter(a, b, c) == a # NaN /\ b # NaN /\ a - b < c
\* the number a null operand (toMs(...)!) becomes in a subtraction
NumOf(x) == IF x = Null THEN 0 ELSE x

AllAlive(names) == [n \in names |-> TRUE]
\* some, rather than every: a wipe test that reads one death as a wipe
AllDead_SomeDead(m) == \E n \in DOMAIN m : ~m[n]
AllDead(m) == \A n \in DOMAIN m : ~m[n]
SetAlive(m, name, v) == [n \in DOMAIN m \cup {name} |-> IF n = name THEN v ELSE m[n]]

\* the timestamps line k can carry when it follows the lines read so far
TsChoices(k) ==
    IF LineInfo(hdr, boss, k).nf < 2 THEN {NoTs}
    ELSE {clock + d : d \in Deltas} \cup (IF badTs < MaxBadTs THEN {BadTs} ELSE {})
\* the lines that can follow line i: none, or any line of the library
NextChoices ==
    {EndOfLog} \cup
    (IF i + 1 - Len(HeaderLib[hdr]) < MaxLines
     THEN UNION {{[k |-> k, ts |-> t] : t \in TsChoices(k)} : k \in 1..NLib} ELSE {})
\* for (...; i++): on to the next line
Advance(nx) ==
    /\ i' = i + 1
    /\ cur' = nx
    /\ clock' = IF nx.ts >= 0 THEN nx.ts ELSE clock
    /\ badTs' = IF nx.ts = BadTs THEN badTs + 1 ELSE badTs

\* an emitted encounter; sl, el are the line indexes scanLogForEncounters
\* records, type its type field.  splitEncountersByBossOrWipe records no
\* type: there, type names the branch that pushed the encounter, and n is
\* the length of the lines array it records (scanLogForEncounters: none).
Enc(start, end, type, sl, el, n) ==
    [start |-> start, end |-> end, type |-> type, sl |-> sl, el |-> el, n |-> n]
\* what the last step did: how the pull ended (kind), whether the line
\* opened a pull, whether an encounter was pushed, and the alive map as it
\* stood after the death and revive parsing of the line (the map the wipe
\* test read), and the member that parsing turned from not-alive to alive
Ev(kind, opened, emitted, alive, revived) ==
    [kind |-> kind, opened |-> opened, emitted |-> emitted, alive |-> alive,
     revived |-> revived]
\* the member whose flag goes from not-alive to alive between two maps
Revived(before, after) ==
    LET up == {n \in DOMAIN before : ~before[n] /\ after[n]}
    IN  IF up = {} THEN <<>> ELSE CHOOSE n \in up : TRUE

\* ---- splitEncountersByBossOrWipe(lines, minLines, minDurMs)

\* the length and duration thresholds of the boss-defeat and wipe branches
\* (start: encounterStart, ts: the line's timestamp field)
\* (splitKeeps_Always: thresholds that discard nothing)
splitKeeps_Always(len, start, ts) == TRUE
splitStartIso(start) == IF toMs(start) # Null THEN start ELSE WallClock
splitEndIso(start, ts) == IF toMs(ts) # Null THEN ts ELSE splitStartIso(start)
splitKeeps(len, start, ts) ==
    /\ len >= minLines
    /\ splitEndIso(start, ts) - splitStartIso(start) >= minDurMs
\* the thresholds of the zone branch and of the trailing encounter
\* (lastTs: the timestamp field of the last line of current)
splitKeepsLast(len, start, lastTs) ==
    /\ len >= minLines
    /\ NumOf(toMs(lastTs)) - NumOf(toMs(start)) >= minDurMs
\* the wipe test once every member is dead
splitWipeFires(tsMs, pending, nextTs) ==
    LET nextLineMs == toMs(nextTs)
        timeGap == IF nextLineMs # Null THEN nextLineMs - tsMs ELSE NoNextGap
    IN  tsMs - pending >= WIPE_GRACE_MS \/ timeGap > WIPE_GRACE_MS
\* the death and revive parsing of one line
splitDeath(alive, L) ==
    IF L.sDeath \in DOMAIN alive THEN [alive EXCEPT ![L.sDeath] = FALSE] ELSE alive
splitRevive(alive, L) ==
    IF L.sRevive \in DOMAIN alive THEN [alive EXCEPT ![L.sRevive] = TRUE] ELSE alive

\* a pending wipe that a revive does not cancel
splitPending_KeepsPending(allDead, since, tsMs) ==
    IF since # Null THEN since ELSE IF allDead THEN tsMs ELSE Null
\* wipePendingSince after the wipe test of a line that does not end the
\* pull: set at the first line of an all-dead stretch, null otherwise
splitPending(allDead, since, tsMs) ==
    IF ~allDead THEN Null ELSE IF since = Null THEN tsMs ELSE since

\* a reset that marks every member not-alive
ResetPull_KeepsAlive ==
    /\ inEncounter' = FALSE
    /\ currentLen' = 0
    /\ currentLastTs' = Null
    /\ encounterStartTs' = Null
    /\ partyAlive' = [n \in Range(partyArray) |-> FALSE]
    /\ wipePendingSince' = Null
\* "// Reset" of the three branches
ResetPull ==
    /\ inEncounter' = FALSE
    /\ currentLen' = 0
    /\ currentLastTs' = Null
    /\ encounterStartTs' = Null
    /\ partyAlive' = AllAlive(Range(partyArray))
    /\ wipePendingSince' = Null

\* one iteration of the loop over lines, nx being the line after this one
SplitLine(nx) ==
    /\ impl = "split" /\ pc = "run" /\ cur.k # 0 /\ partyArray # <<>>
    /\ nx \in NextChoices
    /\ Advance(nx)
    /\ UNCHANGED <<inputVars, clsVars, idleVars, moreVars, pc, lastWipeMs, encounterStart, deathLog, reviveLog,
                   outcome>>
    /\ \E L \in {CurLine} :
       LET ts == cur.ts
           tsMs == NumOf(toMs(ts))
           opened == ~inEncounter /\ L.opens
           inE == inEncounter \/ opened
           start == IF opened THEN ts ELSE encounterStartTs
           len == IF opened THEN 1 ELSE IF inEncounter THEN currentLen + 1 ELSE 0
           alive == splitRevive(splitDeath(partyAlive, L), L)
           kill == inE /\ L.sKill
           allDead == inE /\ AllDead(alive)
           pending == splitPending(allDead, wipePendingSince, tsMs)
           wipe == ~kill /\ allDead /\ splitWipeFires(tsMs, pending, nx.ts)
           zone == ~kill /\ ~wipe /\ L.zone
           zoneEmits == inE /\ len > 0 /\ start # Null /\ splitKeepsLast(len, start, ts)
       IN  IF L.nf < 2
           THEN /\ UNCHANGED <<inEncounter, partyAlive, encounterStartTs, currentLen,
                               currentLastTs, wipePendingSince, encounters>>
                /\ ev' = Ev("skip", FALSE, FALSE, partyAlive, <<>>)
           ELSE IF kill \/ wipe
           THEN /\ ResetPull
                /\ encounters' =
                     IF splitKeeps(len, start, ts)
                     THEN Append(encounters,
                                 Enc(splitStartIso(start), splitEndIso(start, ts),
                                     IF kill THEN "kill" ELSE "wipe", 0, 0, len))
                     ELSE encounters
                /\ ev' = Ev(IF kill THEN "kill" ELSE "wipe", opened,
                            splitKeeps(len, start, ts), alive, Revived(partyAlive, alive))
           ELSE IF zone
           THEN /\ ResetPull
                /\ encounters' =
                     IF zoneEmits
                     THEN Append(encounters, Enc(toMs(start), toMs(ts), "zone", 0, 0, len))
                     ELSE encounters
                /\ ev' = Ev(IF inE THEN "zone" ELSE "reset", opened, zoneEmits, alive,
                            Revived(partyAlive, alive))
           ELSE /\ inEncounter' = inE
                /\ encounterStartTs' = start
                /\ currentLen' = len
                /\ currentLastTs' = IF inE THEN ts ELSE Null
                /\ partyAlive' = alive
                /\ wipePendingSince' = pending
                /\ UNCHANGED encounters
                /\ ev' = Ev("none", opened, FALSE, alive, Revived(partyAlive, alive))

\* how the parse-log request ends once the segmentation has returned encs:
\* every encounter header is inserted, the upload is marked complete and
\* the response is 200 ("complete"), unless an insert fails and the handler
\* throws: the response is 500 and the upload is not marked complete ("error")
handlerOutcomes(encs) == IF encs = <<>> THEN {"complete"} ELSE {"complete", "error"}

\* "No party members detected, cannot split encounters.": return [], on
\* which the handler goes on.  (The handler throws before the call when the
\* log holds fewer than two lines; a log without 03 lines whose first line
\* is cur holds one line or more.)
SplitNoRoster ==
    /\ impl = "split" /\ pc = "run" /\ partyArray = <<>>
    /\ pc' = "done"
    /\ \E twoLines \in (IF cur.k = 0 THEN {FALSE} ELSE BOOLEAN) :
          outcome' = IF twoLines THEN "complete" ELSE "error"
    /\ ev' = Ev("noroster", FALSE, FALSE, partyAlive, <<>>)
    /\ UNCHANGED <<inputVars, clsVars, idleVars, moreVars, i, cur, clock, badTs, inEncounter, partyAlive,
                   encounterStartTs, encounterStart, currentLen, currentLastTs,
                   wipePendingSince, lastWipeMs, deathLog, reviveLog, encounters>>

\* the end of the log: the trailing encounter, then return encounters
SplitFinish ==
    /\ impl = "split" /\ pc = "run" /\ cur.k = 0 /\ partyArray # <<>>
    /\ pc' = "done"
    /\ LET emits == /\ inEncounter /\ currentLen > 0 /\ encounterStartTs # Null
                    /\ splitKeepsLast(currentLen, encounterStartTs, currentLastTs)
       IN  /\ encounters' =
                IF emits
                THEN Append(encounters,
                            Enc(toMs(encounterStartTs), toMs(currentLastTs), "trailing", 0, 0,
                                currentLen))
                ELSE encounters
           /\ ev' = Ev(IF inEncounter THEN "trailing" ELSE "end", FALSE, emits, partyAlive, <<>>)
    /\ outcome' \in handlerOutcomes(encounters')
    /\ UNCHANGED <<inputVars, clsVars, idleVars, moreVars, i, cur, clock, badTs, inEncounter, partyAlive,
                   encounterStartTs, encounterStart, currentLen, currentLastTs,
                   wipePendingSince, lastWipeMs, deathLog, reviveLog>>

\* ---- scanLogForEncounters(lines, bossNames, partyArray, debugLines)

\* partyCanonical
Canonical(party) == {stripServer(party[j]) : j \in 1..Len(party)}
\* the pull debounce: no new pull until 10 s after the last wipe or kill
canStartPull(curMs) ==
    ~(lastWipeMs # Null /\ LessThanAfter(curMs, lastWipeMs, PULL_DEBOUNCE_MS))
\* the death and revive detection of one line
scanDeath(alive, L) == IF L.mDeath # <<>> THEN SetAlive(alive, L.mDeath, FALSE) ELSE alive
scanRevive(alive, L) == IF L.mRevive # <<>> THEN SetAlive(alive, L.mRevive, TRUE) ELSE alive

\* deathLog.push / reviveLog.push of a detected name (the log keeps the
\* canonical names; nothing reads the timestamps pushed with them)
scanLogged(log, name) == IF name # <<>> THEN Append(log, name) ELSE log

\* a push that stamps the encounter's end with its start
ScanEnd_EndsAtStart(type, alive) ==
    /\ encounters' = Append(encounters,
                            Enc(encounterStartTs, encounterStartTs, type, encounterStart, i, 0))
    /\ inEncounter' = FALSE
    /\ partyAlive' = AllAlive(Canonical(partyArray))
    /\ deathLog' = <<>>
    /\ reviveLog' = <<>>
    /\ lastWipeMs' = DateParse(cur.ts)
    /\ ev' = Ev(type, FALSE, TRUE, alive, Revived(partyAlive, alive))
    /\ UNCHANGED <<encounterStartTs, encounterStart>>
\* "Reset state for next pull" of the wipe and kill branches
ScanEnd(type, alive) ==
    /\ encounters' = Append(encounters, Enc(encounterStartTs, cur.ts, type, encounterStart, i, 0))
    /\ inEncounter' = FALSE
    /\ partyAlive' = AllAlive(Canonical(partyArray))
    /\ deathLog' = <<>>
    /\ reviveLog' = <<>>
    /\ lastWipeMs' = DateParse(cur.ts)
    /\ ev' = Ev(type, FALSE, TRUE, alive, Revived(partyAlive, alive))
    /\ UNCHANGED <<encounterStartTs, encounterStart>>

\* one iteration of the loop over lines
ScanLine(nx) ==
    /\ impl = "scan" /\ pc = "run" /\ cur.k # 0 /\ partyArray # <<>>
    /\ nx \in NextChoices
    /\ Advance(nx)
    /\ UNCHANGED <<inputVars, clsVars, idleVars, moreVars, pc, currentLen, currentLastTs, wipePendingSince,
                   outcome>>
    /\ \E L \in {CurLine} :
       LET alive == scanRevive(scanDeath(partyAlive, L), L)
       IN  IF ~inEncounter /\ canStartPull(DateParse(cur.ts)) /\ L.bAction
           THEN /\ inEncounter' = TRUE
                /\ encounterStart' = i
                /\ encounterStartTs' = cur.ts
                /\ partyAlive' = AllAlive(Canonical(partyArray))
                /\ deathLog' = <<>>
                /\ reviveLog' = <<>>
                /\ ev' = Ev("none", TRUE, FALSE, AllAlive(Canonical(partyArray)), <<>>)
                /\ UNCHANGED <<lastWipeMs, encounters>>
           ELSE IF ~inEncounter
           THEN /\ ev' = Ev("skip", FALSE, FALSE, partyAlive, <<>>)
                /\ UNCHANGED <<inEncounter, partyAlive, encounterStartTs, encounterStart,
                               lastWipeMs, deathLog, reviveLog, encounters>>
           ELSE IF AllDead(alive) THEN ScanEnd("wipe", alive)
           ELSE IF L.bKill THEN ScanEnd("kill", alive)
           ELSE /\ partyAlive' = alive
                /\ deathLog' = scanLogged(deathLog, L.mDeath)
                /\ reviveLog' = scanLogged(reviveLog, L.mRevive)
                /\ ev' = Ev("none", FALSE, FALSE, alive, Revived(partyAlive, alive))
                /\ UNCHANGED <<inEncounter, encounterStartTs, encounterStart,
                               lastWipeMs, encounters>>

\* the end of the log: return encounters (an open pull is dropped)
ScanFinish ==
    /\ impl = "scan" /\ pc = "run" /\ cur.k = 0 /\ partyArray # <<>>
    /\ pc' = "done"
    /\ ev' = Ev(IF inEncounter THEN "dropped" ELSE "end", FALSE, FALSE, partyAlive, <<>>)
    /\ outcome' \in handlerOutcomes(encounters)
    /\ UNCHANGED <<inputVars, clsVars, idleVars, moreVars, i, cur, clock, badTs, inEncounter, partyAlive,
                   encounterStartTs, encounterStart, currentLen, currentLastTs,
                   wipePendingSince, lastWipeMs, deathLog, reviveLog, encounters>>

\* throw new Error("No party members detected."): the handler does not
\* call scanLogForEncounters
ScanNoParty ==
    /\ impl = "scan" /\ pc = "run" /\ partyArray = <<>>
    /\ pc' = "done"
    /\ outcome' = "error"
    /\ ev' = Ev("noroster", FALSE, FALSE, partyAlive, <<>>)
    /\ UNCHANGED <<inputVars, clsVars, idleVars, moreVars, i, cur, clock, badTs, inEncounter, partyAlive,
                   encounterStartTs, encounterStart, currentLen, currentLastTs,
                   wipePendingSince, lastWipeMs, deathLog, reviveLog, encounters>>

\* ------------------------------------------------ the actor classifier
\* classifyActors in its two versions: ver = "deno" is the class of
\* actor-classifier-deno.ts, ver = "node" the older class.  An actor is the
\* part of ActorInfo the classifier reads and writes; it is named by its
\* position in the map's insertion order.

MaxActors == 5
MaxPlayers == 2
NoActor == 0
NoJob == 0

\* skill names: three of the job table, and one that is in no job's list
TxtFastBlade == <<"F","a","s","t"," ","B","l","a","d","e">>
TxtCure == <<"C","u","r","e">>
TxtBite == <<"B","i","t","e">>
TxtChat == <<"c","h","a","t">>
\* the jobs of JOBS_DATA whose skills the modelled actors use, with those skills
JOBS_DATA ==
    << [abbreviation |-> "PLD", role |-> "tank", skills |-> {TxtFastBlade}],
       [abbreviation |-> "WHM", role |-> "healer", skills |-> {TxtCure, TxtRaise}] >>
\* the skill names the modelled actors used, with their text
SkillText ==
    ("Fast Blade" :> TxtFastBlade) @@ ("Cure" :> TxtCure) @@
    ("Raise" :> TxtRaise) @@ ("Bite" :> TxtBite) @@ ("chat" :> TxtChat)
\* the jobs of the table that list the skill, names compared in lower case
JobsListing ==
    Tabulated([sn \in DOMAIN SkillText |->
        {j \in DOMAIN JOBS_DATA :
            \E sk \in JOBS_DATA[j].skills : ToLower(sk) = ToLower(SkillText[sn])}])
\* skillToJobMap.get(skillName.toLowerCase()): the last job of the table
\* that lists the skill, as an index of JOBS_DATA
findJobBySkillName(skillName) ==
    LET has == JobsListing[skillName]
    IN  IF has = {} THEN NoJob ELSE CHOOSE j \in has : \A k \in has : k <= j
\* a choice that takes the last job of the table among those that matched
getActorJob_LastJob(skillsUsed) ==
    LET hit == {findJobBySkillName(skillsUsed[p]) : p \in DOMAIN skillsUsed} \ {NoJob}
    IN  IF hit = {} THEN NoJob ELSE CHOOSE j \in hit : \A k \in hit : k <= j
\* getActorJob of actor-classifier-deno.ts: the job with the most matching
\* skills; of two jobs with as many, the one that matched first (jobHits
\* keeps the order of insertion, and the sort is stable)
getActorJob(skillsUsed) ==
    LET jobOf == [p \in DOMAIN skillsUsed |-> findJobBySkillName(skillsUsed[p])]
        hit == {jobOf[p] : p \in DOMAIN skillsUsed} \ {NoJob}
        jobHits(j) == Cardinality({p \in DOMAIN skillsUsed : jobOf[p] = j})
        first(j) == CHOOSE p \in DOMAIN skillsUsed :
                        jobOf[p] = j /\ \A r \in 1..(p - 1) : jobOf[r] # j
    IN  IF hit = {} THEN NoJob
        ELSE CHOOSE j \in hit :
                 \A k \in hit \ {j} :
                     \/ jobHits(k) < jobHits(j)
                     \/ jobHits(k) = jobHits(j) /\ first(j) < first(k)
\* usesPlayerSkills of the older class: the first job of the table that
\* lists the first skill that is in the table at all
usesPlayerSkills(skillsUsed) ==
    LET listed(p) == JobsListing[skillsUsed[p]]
        found == {p \in DOMAIN skillsUsed : listed(p) # {}}
    IN  IF found = {} THEN NoJob
        ELSE LET p == CHOOSE p \in found : \A r \in found : p <= r
             IN  CHOOSE j \in listed(p) : \A k \in listed(p) : j <= k
\* actor.job = ...; actor.role = ...
setJob(act, j) ==
    [act EXCEPT !.job = JOBS_DATA[j].abbreviation, !.role = JOBS_DATA[j].role]

Actor(dmg, hits, skills) ==
    [totalDamageTaken |-> dmg, hitCount |-> hits, skillsUsed |-> skills,
     usesJobSkill |-> getActorJob(skills) # NoJob,
     classification |-> "none", job |-> "none", role |-> "none"]
\* what one actor of an encounter can have accumulated: every hit adds a
\* positive amount, so damage taken is 0 exactly when the hit count is
ActorLib ==
    << Actor(6000, 1, <<"Fast Blade">>),
       Actor(6000, 1, <<"Cure", "Fast Blade", "Raise">>),
       Actor(6000, 1, <<"Fast Blade", "Cure">>),
       Actor(6000, 1, <<"Fast Blade", "Cure", "Raise">>),
       Actor(0, 0, <<>>),
       Actor(12000, 3, <<"Bite">>),
       Actor(18000, 3, <<>>),
       Actor(60000, 3, <<>>),
       Actor(56000, 5, <<>>) >>
\* the maps of at most MaxActors actors, at most MaxPlayers of them players
ActorMaps ==
    {m \in UNION {[1..n -> Range(ActorLib)] : n \in 0..MaxActors} :
        Cardinality({a \in DOMAIN m : m[a].usesJobSkill}) <= MaxPlayers}

EmptyResult == [boss |-> NoActor, adds |-> <<>>, partyMembers |-> <<>>]

\* x / (sum / n) >= p / q, where the quotient counts as 0 when the mean is 0
RatioAtLeast(x, sum, n, p, q) == sum > 0 /\ x * n * q >= p * sum
\* reduce((sum, a) => sum + a.totalDamageTaken, 0) over the actors S
sumDamageTaken(acts, S) ==
    LET RECURSIVE Acc(_)
        Acc(T) == IF T = {} THEN 0
                  ELSE LET e == CHOOSE e \in T : TRUE
                       IN acts[e].totalDamageTaken + Acc(T \ {e})
    IN Acc(S)
\* reduce((sum, a) => sum + a.hitCount, 0) over the actors S
sumHitCount(acts, S) ==
    LET RECURSIVE Acc(_)
        Acc(T) == IF T = {} THEN 0
                  ELSE LET e == CHOOSE e \in T : TRUE
                       IN acts[e].hitCount + Acc(T \ {e})
    IN Acc(S)

\* the two boss tests of classifySingleNPC, over the non-player group S
classifySingleNPC(acts, a, S) ==
    LET n == Cardinality(S)
        sd == sumDamageTaken(acts, S)
        sh == sumHitCount(acts, S)
    IN  IF /\ RatioAtLeast(acts[a].totalDamageTaken, sd, n, 2, 1)
           /\ RatioAtLeast(acts[a].hitCount, sh, n, 3, 2)
           /\ acts[a].totalDamageTaken > 10000
        THEN "boss"
        ELSE IF /\ acts[a].totalDamageTaken > 50000
                /\ RatioAtLeast(acts[a].hitCount, sh, n, 6, 5)
        THEN "boss"
        ELSE "add"

\* classifySingleActor: the means are taken over every actor of the map
classifySingleActor(acts, a) ==
    LET S == DOMAIN acts
        n == Cardinality(S)
    IN  IF usesPlayerSkills(acts[a].skillsUsed) # NoJob THEN "player"
        ELSE IF /\ RatioAtLeast(acts[a].totalDamageTaken, sumDamageTaken(acts, S), n, 2, 1)
                /\ RatioAtLeast(acts[a].hitCount, sumHitCount(acts, S), n, 3, 2)
                /\ acts[a].totalDamageTaken > 10000
        THEN "boss"
        ELSE "add"

\* the members of the set S of actors, in the map's order
InOrder(S) ==
    [p \in 1..Cardinality(S) |->
        CHOOSE a \in S : Cardinality({b \in S : b < a}) = p - 1]
\* a filter that keeps the promoted add among the adds
Without_KeepsAll(q, s) == q
\* adds.filter(add => add !== s)
Without(q, s) == LET Keep(e) == e # s IN SelectSeq(q, Keep)
\* Array.prototype.sort with (a, b) => b.totalDamageTaken - a.totalDamageTaken
\* (the sort is stable); q is in ascending index order
sortByDamageTaken(acts, q) ==
    LET S == Range(q)
        rank(a) == 1 + Cardinality({b \in S :
                        \/ acts[b].totalDamageTaken > acts[a].totalDamageTaken
                        \/ /\ acts[b].totalDamageTaken = acts[a].totalDamageTaken
                           /\ b < a})
    IN  [p \in 1..Len(q) |-> CHOOSE a \in S : rank(a) = p]

setClassification(acts, a, c) == [acts EXCEPT ![a].classification = c]

\* what an NPC that classifySingleNPC called c ends up as
\* (npcClass_KeepsBoss: without the single-boss rule)
npcClass_KeepsBoss(c, res) == c
npcClass(c, res) == IF c = "boss" /\ res.boss # NoActor THEN "add" ELSE c

\* the test that guards the promotion of the strongest add
\* (promotes_Never: without the fallback)
promotes_Never(res) == FALSE
promotes(res) == res.boss = NoActor /\ Len(res.adds) > 0
\* a choice that takes the last of the adds
strongestAdd_Last(acts, adds) == adds[Len(adds)]
\* adds.reduce((prev, curr) => curr.totalDamageTaken > prev.totalDamageTaken
\* ? curr : prev): the first of the adds with the largest damage taken
strongestAdd(acts, adds) ==
    LET best == CHOOSE p \in DOMAIN adds :
                    /\ \A r \in DOMAIN adds :
                           acts[adds[r]].totalDamageTaken <= acts[adds[p]].totalDamageTaken
                    /\ \A r \in 1..(p - 1) :
                           acts[adds[r]].totalDamageTaken < acts[adds[p]].totalDamageTaken
    IN adds[best]
Promote ==
    IF promotes(classified)
    THEN LET s == strongestAdd(actors, classified.adds)
         IN /\ actors' = setClassification(actors, s, "boss")
            /\ classified' = [classified EXCEPT
                                 !.boss = s,
                                 !.adds = Without(classified.adds, s)]
    ELSE UNCHANGED <<actors, classified>>

\* actors.filter(actor => actor.classification !== 'player')
\* (isNpc_Unclassified: only the actors that carry no classification yet)
isNpc_Unclassified(act) == act.classification = "none"
isNpc(act) == act.classification # "player"

\* deno: the first pass and the setting up of the second
DenoPlayerPass ==
    /\ ver = "deno" /\ cpc = "start"
    /\ LET jobInfo(a) == getActorJob(actors[a].skillsUsed)
           acts == [a \in DOMAIN actors |->
                       IF jobInfo(a) # NoJob
                       THEN [setJob(actors[a], jobInfo(a)) EXCEPT !.classification = "player"]
                       ELSE actors[a]]
           rest == InOrder({a \in DOMAIN acts : isNpc(acts[a])})
       IN /\ actors' = acts
          /\ classified' = [classified EXCEPT
                               !.partyMembers =
                                   InOrder({a \in DOMAIN actors : jobInfo(a) # NoJob})]
          /\ IF Len(rest) = 0
             THEN npcs' = <<>> /\ cpc' = "done"
             ELSE npcs' = sortByDamageTaken(acts, rest) /\ cpc' = "npcs"
    /\ at' = 1
    /\ UNCHANGED <<logVars, idleVars, moreVars, run, firstRun, ver>>

\* deno: one turn of the loop over the sorted NPCs
DenoNpcStep ==
    /\ ver = "deno" /\ cpc = "npcs" /\ at <= Len(npcs)
    /\ LET a == npcs[at]
           c == npcClass(classifySingleNPC(actors, a, Range(npcs)), classified)
       IN /\ actors' = setClassification(actors, a, c)
          /\ classified' = IF c = "boss"
                           THEN [classified EXCEPT !.boss = a]
                           ELSE [classified EXCEPT !.adds = Append(@, a)]
    /\ at' = at + 1
    /\ UNCHANGED <<logVars, idleVars, moreVars, run, firstRun, ver, npcs, cpc>>

\* deno: the fallback and the return
DenoFallback ==
    /\ ver = "deno" /\ cpc = "npcs" /\ at > Len(npcs)
    /\ Promote
    /\ cpc' = "done"
    /\ UNCHANGED <<logVars, idleVars, moreVars, run, firstRun, ver, npcs, at>>

\* node: one turn of the loop over the map's actors
NodeActorStep ==
    /\ ver = "node" /\ cpc = "start" /\ at <= Len(actors)
    /\ LET c == classifySingleActor(actors, at)
           b == classified.boss
       IN CASE c = "player" ->
                 /\ actors' = setClassification(
                                  [actors EXCEPT ![at] =
                                      setJob(@, usesPlayerSkills(actors[at].skillsUsed))],
                                  at, "player")
                 /\ classified' = [classified EXCEPT !.partyMembers = Append(@, at)]
            [] c = "add" ->
                 /\ actors' = setClassification(actors, at, "add")
                 /\ classified' = [classified EXCEPT !.adds = Append(@, at)]
            [] c = "boss" /\ b = NoActor ->
                 /\ actors' = setClassification(actors, at, "boss")
                 /\ classified' = [classified EXCEPT !.boss = at]
            [] c = "boss" /\ b # NoActor
                 /\ actors[at].totalDamageTaken > actors[b].totalDamageTaken ->
                 /\ actors' = setClassification(setClassification(actors, at, "boss"), b, "add")
                 /\ classified' = [classified EXCEPT !.boss = at, !.adds = Append(@, b)]
            [] OTHER ->
                 /\ actors' = setClassification(actors, at, "add")
                 /\ classified' = [classified EXCEPT !.adds = Append(@, at)]
    /\ at' = at + 1
    /\ UNCHANGED <<logVars, idleVars, moreVars, run, firstRun, ver, npcs, cpc>>

\* node: the final validation and the return
NodeFallback ==
    /\ ver = "node" /\ cpc = "start" /\ at > Len(actors)
    /\ Promote
    /\ cpc' = "done"
    /\ UNCHANGED <<logVars, idleVars, moreVars, run, firstRun, ver, npcs, at>>

\* classifyActors has returned and is called again with the same map: the
\* first call's result, and the actors as it left them, are kept aside
Rerun ==
    /\ cpc = "done" /\ run = 1
    /\ run' = 2
    /\ firstRun' = [result |-> classified, actors |-> actors]
    /\ classified' = EmptyResult
    /\ npcs' = <<>>
    /\ cpc' = "start"
    /\ at' = 1
    /\ UNCHANGED <<logVars, idleVars, moreVars, ver, actors>>

\* no classifyActors call is under way
ClsIdle ==
    /\ ver = "none" /\ actors = <<>> /\ npcs = <<>>
    /\ classified = EmptyResult /\ cpc = "idle" /\ at = 0
    /\ run = 0 /\ firstRun = EmptyResult

\* ------------------------------------------------------------ Strategy A
\* splitByDamageIdle(lines, idleMs): the log is a sequence of lines, each
\* a line of IdleLib (k) with its timestamp field (ts).  Line indexes are
\* 1-based here (the source's index plus one); cuts holds the source's
\* 0-based positions in idxs.

MaxIdleLines == 4               \* lines in a log
MaxIdleBadTs == 1               \* lines whose timestamp does not parse
idleMs == 8000

TxtHits == <<"h","i","t","s">>
TxtFor == <<"f","o","r">>
TxtTakes == <<"t","a","k","e","s">>
TxtDamage == <<"d","a","m","a","g","e">>

\* the lines a log is drawn from
IdleLib == <<
    LogLine("21", Id1, NameP1Srv, <<>>, TxtAttack, NameTitan),                  \* 1 an ability
    \* 2 a hit message: "Al Bo hits Titan for 120 damage."
    LogLine("00", <<>>, <<>>,
            NameP1 \o <<" ">> \o TxtHits \o <<" ">> \o NameTitan \o <<" ">> \o TxtFor
                \o <<" ","1","2","0"," ">> \o TxtDamage \o <<".">>, <<>>, <<>>),
    \* 3 a takes message in a line of 4 fields: "Titan takes 50 damage."
    [op |-> "00", nf |-> 4, p2 |-> <<>>,
     p3 |-> NameTitan \o <<" ">> \o TxtTakes \o <<" ","5","0"," ">> \o TxtDamage \o <<".">>,
     p4 |-> <<>>, p5 |-> <<>>, p7 |-> <<>>],
    LogLine("00", <<>>, <<>>, NameP1 \o TxtIsDefeated \o <<".">>, <<>>, <<>>),  \* 4 another message
    Garbage                                                                     \* 5
  >>

\* \s+\d+\s+damage from position ix of s
DigitsThenDamage(s, ix) ==
    /\ ix <= Len(s) /\ s[ix] = " "
    /\ LET d == SkipSpaces(s, ix)
           e == SkipDigits(s, d)
       IN  /\ e > d
           /\ e <= Len(s) /\ s[e] = " "
           /\ OccursAt(s, TxtDamage, SkipSpaces(s, e))
\* /hits\s+.+?\s+for\s+\d+\s+damage/i
HitsForDamage(m) ==
    LET s == ToLower(m)
    IN  \E h \in 1..Len(s) : \E f \in 1..Len(s) :
            /\ OccursAt(s, TxtHits, h)
            /\ h + 4 <= Len(s) /\ s[h + 4] = " "
            /\ f - 1 >= h + 6 /\ s[f - 1] = " "
            /\ OccursAt(s, TxtFor, f)
            /\ DigitsThenDamage(s, f + 3)
\* /takes\s+\d+\s+damage/i
TakesDamage(m) ==
    LET s == ToLower(m)
    IN  \E t \in 1..Len(s) : OccursAt(s, TxtTakes, t) /\ DigitsThenDamage(s, t + 5)
\* (p[4] ?? p[3] ?? p[2] ?? "").trim()
msgOf(l) ==
    Trim(IF l.nf >= 5 THEN l.p4 ELSE IF l.nf >= 4 THEN l.p3 ELSE IF l.nf >= 3 THEN l.p2 ELSE <<>>)
\* the test under which the first loop pushes the index of a line
idleActive(l) ==
    /\ l.nf >= 2
    /\ IF l.op = "00" THEN HitsForDamage(msgOf(l)) \/ TakesDamage(msgOf(l))
       ELSE l.op \in {"21", "22"}
IdleActive == Tabulated([kd \in 1..Len(IdleLib) |-> idleActive(IdleLib[kd])])

\* the logs: each line carries a timestamp later than the ones before it
\* by d (1000, 8000 or 9000 ms), or one that does not parse, or (a line
\* without "|") none
IdleSteps ==
    {[k |-> kd, d |-> d] : kd \in {jx \in 1..Len(IdleLib) : IdleLib[jx].nf >= 2},
                           d \in {1000, 8000, 9000, BadTs}}
    \cup {[k |-> kd, d |-> NoTs] : kd \in {jx \in 1..Len(IdleLib) : IdleLib[jx].nf < 2}}
RECURSIVE Elapsed(_, _)
Elapsed(steps, n) ==
    IF n = 0 THEN 0
    ELSE Elapsed(steps, n - 1) + (IF steps[n].d > 0 THEN steps[n].d ELSE 0)
TimedLog(steps) ==
    [jx \in 1..Len(steps) |->
        [k |-> steps[jx].k,
         ts |-> IF steps[jx].d > 0 THEN T0 + Elapsed(steps, jx) ELSE steps[jx].d]]
IdleLogs(n) ==
    {TimedLog(steps) :
        steps \in {st \in [1..n -> IdleSteps] :
                      Cardinality({jx \in 1..n : st[jx].d = BadTs}) <= MaxIdleBadTs}}

\* toIso(s) ?? other
isoOr(ts, other) == IF toMs(ts) # Null THEN ts ELSE other
\* a time that takes the clock for a timestamp that does not parse
tsOf_OrNow(log, ix) == IF toMs(log[ix].ts) # Null THEN log[ix].ts ELSE WallClock
\* tsOf(i) = toMs(lines[i].split("|")[1] || "") ?? 0
tsOf(log, ix) == NumOf(toMs(log[ix].ts))
\* an element of the result: lines is the slice from line a to line b
Fight(a, b, start, end) == [from |-> a, to |-> b, start |-> start, end |-> end]

\* the test under which the second loop pushes a cut (idleCut_AtThreshold:
\* a gap of exactly idleMs cuts as well)
idleCut_AtThreshold(prevMs, ms) == ms - prevMs >= idleMs
idleCut(prevMs, ms) == ms - prevMs > idleMs

\* the first loop: the indexes of the active lines
IdleCollect ==
    /\ ipc = "collect"
    /\ LET Act(jx) == IdleActive[idleLines[jx].k]
       IN  idxs' = SelectSeq([jx \in 1..Len(idleLines) |-> jx], Act)
    /\ ipc' = IF idxs' = <<>> THEN "whole" ELSE "cut"
    /\ UNCHANGED <<logVars, clsVars, moreVars, idleLines, cuts, fights>>

\* if (idxs.length === 0): nothing for an empty log, else the whole log
IdleWhole ==
    /\ ipc = "whole"
    /\ fights' =
         IF Len(idleLines) = 0 THEN <<>>
         ELSE LET firstTs == idleLines[1].ts
                  lastTs == idleLines[Len(idleLines)].ts
              IN  << Fight(1, Len(idleLines), isoOr(firstTs, WallClock),
                           isoOr(lastTs, isoOr(firstTs, WallClock))) >>
    /\ ipc' = "done"
    /\ UNCHANGED <<logVars, clsVars, moreVars, idleLines, idxs, cuts>>

\* the second loop: cuts = [0, every k whose gap exceeds idleMs, idxs.length]
IdleCut ==
    /\ ipc = "cut"
    /\ LET Cut(kx) == idleCut(tsOf(idleLines, idxs[kx]), tsOf(idleLines, idxs[kx + 1]))
       IN  cuts' = <<0>> \o SelectSeq([kx \in 1..(Len(idxs) - 1) |-> kx], Cut)
                         \o <<Len(idxs)>>
    /\ ipc' = "fights"
    /\ UNCHANGED <<logVars, clsVars, moreVars, idleLines, idxs, fights>>

\* the third loop, and the return
IdleFights ==
    /\ ipc = "fights"
    /\ fights' =
         [c \in 1..(Len(cuts) - 1) |->
             LET a == idxs[cuts[c] + 1]
                 b == idxs[cuts[c + 1]]
                 startIso == isoOr(idleLines[a].ts, WallClock)
             IN  Fight(a, b, startIso, isoOr(idleLines[b].ts, startIso))]
    /\ ipc' = "done"
    /\ UNCHANGED <<logVars, clsVars, moreVars, idleLines, idxs, cuts>>

\* no splitByDamageIdle call is under way
IdleIdle ==
    /\ idleLines = <<>> /\ idxs = <<>> /\ cuts = <<>> /\ fights = <<>> /\ ipc = "idle"

\* ------------------------------------------------- the parse-log handler
\* The Deno.serve handler of parse-log/index.ts serving two requests, for
\* the uploads 1 and 2, in one isolate.  A request runs from one await to
\* the next without interruption; at an await the other request may run.
\* What a request issues at each resumption is listed by Script; writes to
\* the uploads table carry the request that issued them.

MaxFights == 2
Requests == {1, 2}
NoUpload == 0
NoRequest == 0

Op(kind, arg) == [kind |-> kind, arg |-> arg]
\* the operations of one fight of the header loop
FightOps(f) ==
    << Op("note", "create header"), Op("insert", f), Op("note", "header created") >>
RECURSIVE HeaderLoop(_, _)
HeaderLoop(f, n) == IF f > n THEN <<>> ELSE FightOps(f) \o HeaderLoop(f + 1, n)
\* the tail of a failed request: the note before the throw, the note of
\* the catch block, the 500 response
Thrown(msg) == << Op("note", msg), Op("note", "ERR"), Op("return", 500) >>
\* what a request with n fights issues after the update to "parsing", when
\* the step named fail fails ("none": no step does)
Script(n, fail) ==
    << Op("note", "signing url"), Op("await", "createSignedUrl") >> \o
    IF fail = "sign" THEN Thrown("signed url err") ELSE
    << Op("note", "fetching file"), Op("await", "fetch") >> \o
    IF fail = "fetch" THEN Thrown("fetch status") ELSE
    << Op("note", "reading text"), Op("await", "text") >> \o
    IF fail = "text" THEN Thrown("empty file") ELSE
    << Op("note", "splitting fights"), Op("note", "fights") >> \o
    HeaderLoop(1, n) \o
    << Op("note", "final"), Op("complete", 0), Op("return", 200) >>
Scripts ==
    Tabulated([n \in 0..MaxFights |->
        [fail \in {"none", "sign", "fetch", "text"} |-> Script(n, fail)]])
\* the operation the request r issues next
NextOp(r) ==
    LET script == Scripts[nFights[r]][failAt[r]]
    IN  IF hpc[r] \in DOMAIN script THEN script[hpc[r]] ELSE Op("none", 0)

UploadRow(status, statusBy, error, errorBy) ==
    [status |-> status, statusBy |-> statusBy, error |-> error, errorBy |-> errorBy]

\* _uploadId = upload_id; update({status: "parsing", error: "start"}).eq("id", upload_id)
HReceive(r) ==
    /\ hpc[r] = 0
    /\ moduleUploadId' = r
    /\ uploads' = [uploads EXCEPT ![r] = UploadRow("parsing", r, "start", r)]
    /\ hpc' = [hpc EXCEPT ![r] = 1]
    /\ UNCHANGED <<logVars, clsVars, idleVars, stripVars, dmgVars, partyVars, hpVars, nameVars, encVars, encRows, nFights, failAt, encounterIds, response>>

\* the row note(s) writes: the one _uploadId names when note is called
noteRow(r) == moduleUploadId

\* note(s): update({error: s}).eq("id", _uploadId)
HNote(r) ==
    /\ NextOp(r).kind = "note"
    /\ uploads' = IF noteRow(r) = NoUpload THEN uploads
                  ELSE [uploads EXCEPT ![noteRow(r)].error = NextOp(r).arg,
                                       ![noteRow(r)].errorBy = r]
    /\ hpc' = [hpc EXCEPT ![r] = @ + 1]
    /\ UNCHANGED <<logVars, clsVars, idleVars, stripVars, dmgVars, partyVars, hpVars, nameVars, encVars, moduleUploadId, encRows, nFights, failAt,
                   encounterIds, response>>

\* createSignedUrl, fetch, resp.text(): no table is written
HAwait(r) ==
    /\ NextOp(r).kind = "await"
    /\ hpc' = [hpc EXCEPT ![r] = @ + 1]
    /\ UNCHANGED <<logVars, clsVars, idleVars, stripVars, dmgVars, partyVars, hpVars, nameVars, encVars, moduleUploadId, uploads, encRows, nFights,
                   failAt, encounterIds, response>>

\* from("encounters").insert({upload_id, ...}); encounterIds.push(enc.id)
HInsert(r) ==
    /\ NextOp(r).kind = "insert"
    /\ encRows' = Append(encRows, [upload_id |-> r, fight |-> NextOp(r).arg])
    /\ encounterIds' = [encounterIds EXCEPT ![r] = Append(@, Len(encRows) + 1)]
    /\ hpc' = [hpc EXCEPT ![r] = @ + 1]
    /\ UNCHANGED <<logVars, clsVars, idleVars, stripVars, dmgVars, partyVars, hpVars, nameVars, encVars, moduleUploadId, uploads, nFights, failAt, response>>

\* update({status: "complete"}).eq("id", _uploadId)
HComplete(r) ==
    /\ NextOp(r).kind = "complete"
    /\ uploads' = [uploads EXCEPT ![noteRow(r)].status = "complete",
                                  ![noteRow(r)].statusBy = r]
    /\ hpc' = [hpc EXCEPT ![r] = @ + 1]
    /\ UNCHANGED <<logVars, clsVars, idleVars, stripVars, dmgVars, partyVars, hpVars, nameVars, encVars, moduleUploadId, encRows, nFights, failAt,
                   encounterIds, response>>

\* return new Response(...)
HReturn(r) ==
    /\ NextOp(r).kind = "return"
    /\ response' = [response EXCEPT ![r] =
                       IF NextOp(r).arg = 200
                       THEN [status |-> 200, encounter_ids |-> encounterIds[r]]
                       ELSE [status |-> 500, encounter_ids |-> <<>>]]
    /\ hpc' = [hpc EXCEPT ![r] = @ + 1]
    /\ UNCHANGED <<logVars, clsVars, idleVars, stripVars, dmgVars, partyVars, hpVars, nameVars, encVars, moduleUploadId, uploads, encRows, nFights,
                   failAt, encounterIds>>

NoResponse == [status |-> 0, encounter_ids |-> <<>>]
\* no request is being served
HandlerIdle ==
    /\ moduleUploadId = NoUpload
    /\ uploads = [u \in Requests |-> UploadRow("uploaded", NoRequest, "", NoRequest)]
    /\ encRows = <<>>
    /\ nFights = [r \in Requests |-> 0]
    /\ failAt = [r \in Requests |-> "none"]
    /\ hpc = [r \in Requests |-> -1]
    /\ encounterIds = [r \in Requests |-> <<>>]
    /\ response = [r \in Requests |-> NoResponse]

\* ------------------------------------------- the damage scan (stage 2)
\* The loop of the parse-encounter handler over encounterLines.  An event
\* is the part of Ev the loop computes from the message (its timestamp is
\* the line's, or the time of the run when that does not parse).

MaxDmgLines == 4

TxtCritical == <<"c","r","i","t","i","c","a","l">>
TxtDirectHit == <<"d","i","r","e","c","t"," ","h","i","t">>
NameUnknown == <<"U","n","k","n","o","w","n">>
Msg00(m) == LogLine("00", <<>>, <<>>, m, <<>>, <<>>)
\* the lines an encounter is drawn from
DmgLib == <<
    \* 1 "Al Bo hits Titan for 120 damage."
    Msg00(NameP1 \o <<" ">> \o TxtHits \o <<" ">> \o NameTitan \o <<" ">> \o TxtFor
              \o <<" ","1","2","0"," ">> \o TxtDamage \o <<".">>),
    \* 2 "Titan takes 50 damage." in a line of 4 fields
    [op |-> "00", nf |-> 4, p2 |-> <<>>,
     p3 |-> NameTitan \o <<" ">> \o TxtTakes \o <<" ","5","0"," ">> \o TxtDamage \o <<".">>,
     p4 |-> <<>>, p5 |-> <<>>, p7 |-> <<>>],
    \* 3 "Titan hits Al Bo for 0 damage."
    Msg00(NameTitan \o <<" ">> \o TxtHits \o <<" ">> \o NameP1 \o <<" ">> \o TxtFor
              \o <<" ","0"," ">> \o TxtDamage \o <<".">>),
    \* 4 "Al Bo hits   for 5 damage": the target is blank
    Msg00(NameP1 \o <<" ">> \o TxtHits \o <<" "," "," ">> \o TxtFor
              \o <<" ","5"," ">> \o TxtDamage),
    \* 5 "Critical! Titan takes 70 damage."
    Msg00(<<"C","r","i","t","i","c","a","l","!"," ">> \o NameTitan \o <<" ">> \o TxtTakes
              \o <<" ","7","0"," ">> \o TxtDamage \o <<".">>),
    \* 6 an ability line
    LogLine("21", Id1, NameP1Srv, <<>>, TxtAttack, NameTitan),
    \* 7 " * Titan HITS Al Bo for 030 damage"
    Msg00(<<" ","*"," ">> \o NameTitan \o <<" ","H","I","T","S"," ">> \o NameP1 \o <<" ">>
              \o TxtFor \o <<" ","0","3","0"," ">> \o TxtDamage),
    \* 8 "Al Bo hits Titan for x9 damage."
    Msg00(NameP1 \o <<" ">> \o TxtHits \o <<" ">> \o NameTitan \o <<" ">> \o TxtFor
              \o <<" ","x","9"," ">> \o TxtDamage \o <<".">>)
  >>

\* .replace(/^[^\w]*\s*/, "")
StripLead(s) ==
    LET words == {ix \in 1..Len(s) : IsWordChar(s[ix])}
    IN  IF words = {} THEN <<>> ELSE SubSeq(s, MinOf(words), Len(s))
\* \s+ over the positions x..y of s
Spaces(s, x, y) == x <= y /\ \A m \in x..y : s[m] = " "
\* \s+(\d+)\s+damage\.?$ from position ix of the lower-case text s
AmountTail(s, ix) ==
    /\ DigitsThenDamage(s, ix)
    /\ LET g == SkipSpaces(s, SkipDigits(s, SkipSpaces(s, ix))) + Len(TxtDamage)
       IN  g > Len(s) \/ (g = Len(s) /\ s[g] = ".")
\* Number of the digits \d+ matched from position ix on
RECURSIVE DigitsValue(_)
DigitsValue(ds) ==
    IF ds = <<>> THEN 0
    ELSE 10 * DigitsValue(SubSeq(ds, 1, Len(ds) - 1)) +
         (CHOOSE v \in 0..9 : ToString(v) = ds[Len(ds)])
AmountAt(s, ix) ==
    LET d == SkipSpaces(s, ix) IN DigitsValue(SubSeq(s, d, SkipDigits(s, d) - 1))
NoMatch == [ok |-> FALSE, attacker |-> <<>>, target |-> <<>>, amount |-> 0]
\* rawMsg.match(RE_HIT): the attacker is the shortest prefix after which
\* the rest matches; the white space after "hits" is as long as it can be,
\* and the target as short as it can be
matchHit(m) ==
    LET \* the target m[tb..u-1] ends before \s+for\s+(\d+)\s+damage\.?$
        targetEnds(s, tb, u) ==
            /\ tb < u
            /\ \E f \in (u + 1)..Len(s) :
                   Spaces(s, u, f - 1) /\ OccursAt(s, TxtFor, f) /\ AmountTail(s, f + 3)
        \* the attacker m[1..a-1] is followed by \s+hits\s+ and a target from tb
        hitsAt(s, a, h, tb) ==
            /\ Spaces(s, a, h - 1) /\ OccursAt(s, TxtHits, h)
            /\ Spaces(s, h + 4, tb - 1)
            /\ \E u \in (tb + 1)..Len(s) : targetEnds(s, tb, u)
        matched(s, a, tb, u) ==
            [ok |-> TRUE, attacker |-> Trim(SubSeq(m, 1, a - 1)),
             target |-> Trim(SubSeq(m, tb, u - 1)), amount |-> AmountAt(s, SkipSpaces(s, u) + 3)]
        fromTarget(s, a, tb) ==
            Only({matched(s, a, tb, u) :
                    u \in {MinOf({x \in (tb + 1)..Len(s) : targetEnds(s, tb, x)})}})
        fromHits(s, a, h) ==
            Only({fromTarget(s, a, tb) :
                    tb \in {CHOOSE x \in h..Len(s) :
                               /\ hitsAt(s, a, h, x)
                               /\ \A y \in h..Len(s) : hitsAt(s, a, h, y) => y <= x}})
        fromStarts(s, starts) ==
            IF starts = {} THEN NoMatch
            ELSE Only({Only({fromHits(s, a, h) : h \in {SkipSpaces(s, a)}}) :
                         a \in {MinOf(starts)}})
        inLower(s) ==
            Only({fromStarts(s, starts) :
                    starts \in {{a \in 1..Len(s) :
                                   \E h \in a..Len(s) : \E tb \in h..Len(s) : hitsAt(s, a, h, tb)}}})
    IN  Only({inLower(s) : s \in {ToLower(m)}})
\* rawMsg.match(RE_TAKES): after the optional "critical!" or "direct hit!",
\* the target is as short as it can be
matchTakes(m) ==
    LET takesAt(s, b, u) ==
            /\ b < u
            /\ \E k \in (u + 1)..Len(s) :
                   Spaces(s, u, k - 1) /\ OccursAt(s, TxtTakes, k) /\ AmountTail(s, k + 5)
        pre(s) == IF HasPrefix(s, TxtCritical \o <<"!">>) THEN Len(TxtCritical) + 1
                  ELSE IF HasPrefix(s, TxtDirectHit \o <<"!">>) THEN Len(TxtDirectHit) + 1
                  ELSE 0
        \* the prefix is taken, with all the white space after it, when the
        \* rest then matches
        begin(s) == IF pre(s) > 0 /\ \E u \in 1..Len(s) : takesAt(s, SkipSpaces(s, pre(s) + 1), u)
                    THEN SkipSpaces(s, pre(s) + 1) ELSE 1
        fromEnds(s, b, ends) ==
            IF ends = {} THEN NoMatch
            ELSE Only({[ok |-> TRUE, attacker |-> NameUnknown,
                        target |-> Trim(SubSeq(m, b, u - 1)),
                        amount |-> AmountAt(s, SkipSpaces(s, u) + 5)] : u \in {MinOf(ends)}})
        fromBegin(s, b) ==
            Only({fromEnds(s, b, ends) : ends \in {{u \in 1..Len(s) : takesAt(s, b, u)}}})
        inLower(s) == Only({fromBegin(s, b) : b \in {begin(s)}})
    IN  Only({inLower(s) : s \in {ToLower(m)}})
\* the test that keeps a match: attacker, target and a positive amount
\* (validMatch_AnyAmount: without the test of the amount)
validMatch_AnyAmount(mt) == mt.attacker # <<>> /\ mt.target # <<>>
validMatch(mt) == mt.attacker # <<>> /\ mt.target # <<>> /\ mt.amount > 0
\* what the loop body makes of a line: the match it keeps, if any
damageOf(l) ==
    LET kept(rawMsg, mt) ==
            IF l.op # "00" \/ ~mt.ok THEN NoMatch
            ELSE [mt EXCEPT !.ok = validMatch(mt)] @@
                 [crit |-> Includes(ToLower(rawMsg), TxtCritical),
                  direct_hit |-> Includes(ToLower(rawMsg), TxtDirectHit)]
        tried(rawMsg, mHit) ==
            Only({kept(rawMsg, mt) : mt \in {IF mHit.ok THEN mHit ELSE matchTakes(rawMsg)}})
        ofMsg(rawMsg) == Only({tried(rawMsg, mHit) : mHit \in {matchHit(rawMsg)}})
    IN  Only({ofMsg(rawMsg) : rawMsg \in {StripLead(msgOf(l))}})
DamageOf == Tabulated([kd \in 1..Len(DmgLib) |-> damageOf(DmgLib[kd])])

NewStat == [totalDamageDealt |-> 0, totalDamageTaken |-> 0, hitCount |-> 0, skillsUsed |-> {}]
\* if (!actorStats.has(name)) actorStats.set(name, {...})
withActor(stats, name) == IF name \in DOMAIN stats THEN stats ELSE stats @@ (name :> NewStat)
withKey(order, name) == IF name \in Range(order) THEN order ELSE Append(order, name)

\* a scan that records a skill of the job table
SkillChat_Cure == "Cure"
\* the skill name the loop records for the attacker and for the event
SkillChat == "chat"

\* one turn of the loop over encounterLines
DamageLine ==
    /\ dpc = "scan" /\ dpos <= Len(dmgLog)
    /\ LET mt == DamageOf[dmgLog[dpos]]
       IN  IF mt.ok
           THEN LET s1 == withActor(actorStats, mt.attacker)
                    s2 == [s1 EXCEPT ![mt.attacker].totalDamageDealt = @ + mt.amount,
                                     ![mt.attacker].skillsUsed = @ \cup {SkillChat}]
                    s3 == withActor(s2, mt.target)
                IN  /\ actorStats' = [s3 EXCEPT ![mt.target].totalDamageTaken = @ + mt.amount,
                                                ![mt.target].hitCount = @ + 1]
                    /\ statOrder' = withKey(withKey(statOrder, mt.attacker), mt.target)
                    /\ events' = Append(events,
                                     [tmpName |-> mt.attacker, type |-> "dmg", skill |-> SkillChat,
                                      amount |-> mt.amount, crit |-> mt.crit,
                                      direct_hit |-> mt.direct_hit])
           ELSE UNCHANGED <<actorStats, statOrder, events>>
    /\ dpos' = dpos + 1
    /\ UNCHANGED <<logVars, clsVars, idleVars, stripVars, handlerVars, partyVars, hpVars, nameVars, encVars, dmgLog, dpc>>

\* the loop is left
DamageEnd ==
    /\ dpc = "scan" /\ dpos > Len(dmgLog)
    /\ dpc' = "classify"
    /\ UNCHANGED <<logVars, clsVars, idleVars, stripVars, handlerVars, partyVars, hpVars, nameVars, encVars, dmgLog, dpos, actorStats,
                   statOrder, events>>

\* Array.from(actor.skillsUsed)
skillSeq(S) == CHOOSE q \in [1..Cardinality(S) -> S] : Range(q) = S
\* Array.from(actorStats.values()): the actors in the map's insertion order
actorsOf(stats, order) ==
    [p \in 1..Len(order) |->
        Actor(stats[order[p]].totalDamageTaken, stats[order[p]].hitCount,
              skillSeq(stats[order[p]].skillsUsed))]

\* classifier.classifyActors(actorStats) is entered: the class is that of
\* actor-classifier-deno.ts
DamageClassify ==
    /\ dpc = "classify"
    /\ dpc' = "classifying"
    /\ ver' = "deno"
    /\ actors' = actorsOf(actorStats, statOrder)
    /\ classified' = EmptyResult
    /\ cpc' = "start"
    /\ at' = 1
    /\ run' = 1
    /\ UNCHANGED <<logVars, idleVars, stripVars, handlerVars, partyVars, hpVars, nameVars, encVars,
                   dmgLog, dpos, actorStats, statOrder, events, npcs, firstRun>>

\* classifyActors has returned: the update of the encounter's row with
\* boss, adds and party_members as the result holds them
DamageStore ==
    /\ dpc = "classifying" /\ cpc = "done"
    /\ dpc' = "stored"
    /\ UNCHANGED <<logVars, clsVars, idleVars, stripVars, handlerVars, partyVars, hpVars, nameVars,
                   encVars, dmgLog, dpos, actorStats, statOrder, events>>

\* no encounter is being scanned
DamageIdle ==
    /\ dmgLog = <<>> /\ dpos = 0 /\ actorStats = <<>> /\ statOrder = <<>>
    /\ events = <<>> /\ dpc = "idle"

\* ------------------------------------------------- parsePartyMembers
\* The loop of parsePartyMembers over a log of more than 200 lines.

MaxFiller == 200
NNames == 10
\* the line of the log named t: t in 1..NNames is the 03 line of the t-th
\* player ("Aa Zo", "Ba Zo", ..., the odd ones with a server name), 0 an
\* ability line, and the others 03 lines that give no name and a line
\* without fields
PartyLib(t) ==
    IF t \in 1..NNames
    THEN HeaderLine(Id1, <<AlphaU[t], "a", " ", "Z", "o">> \o
                         (IF t % 2 = 1 THEN <<"G","i","l">> ELSE <<>>))
    ELSE IF t = 0 THEN LogLine("21", Id1, NameP1Srv, <<>>, TxtAttack, NameTitan)
    ELSE IF t = NNames + 1 THEN HeaderLine(IdPet, NamePet)
    ELSE IF t = NNames + 2
    THEN [op |-> "03", nf |-> 3, p2 |-> Id2, p3 |-> <<>>, p4 |-> <<>>, p5 |-> <<>>, p7 |-> <<>>]
    ELSE Garbage
\* the name the loop body adds to party for a line, <<>> when it adds none
partyNameOf(l) ==
    IF l.nf >= 4 /\ l.op = "03" /\ nameValid(stripServer(l.p3))
    THEN stripServer(l.p3) ELSE <<>>
PartyNameOf == Tabulated([t \in 0..(NNames + 3) |-> partyNameOf(PartyLib(t))])
\* lines.slice(0, 200)  (scanLines_All: the whole log)
scanLines_All(lines) == lines
scanLines(lines) == SubSeq(lines, 1, IF Len(lines) < 200 THEN Len(lines) ELSE 200)

\* one turn of the loop: party.add(name); if (party.size >= 8) break
PartyScanLine ==
    /\ ppc = "scan" /\ ppos <= Len(scanLines(partyLog))
    /\ LET name == PartyNameOf[scanLines(partyLog)[ppos]]
       IN  partySet' = IF name # <<>> /\ name \notin Range(partySet)
                    THEN Append(partySet, name) ELSE partySet
    /\ IF Len(partySet') >= 8 THEN ppc' = "done" /\ ppos' = ppos
       ELSE ppc' = ppc /\ ppos' = ppos + 1
    /\ UNCHANGED <<logVars, clsVars, idleVars, stripVars, handlerVars, dmgVars, hpVars, nameVars, encVars, partyLog>>

\* the loop has run through scanLines: return Array.from(party)
PartyReturn ==
    /\ ppc = "scan" /\ ppos > Len(scanLines(partyLog))
    /\ ppc' = "done"
    /\ UNCHANGED <<logVars, clsVars, idleVars, stripVars, handlerVars, dmgVars, hpVars, nameVars, encVars, partyLog, ppos, partySet>>

\* no parsePartyMembers call is under way
PartyIdle == partyLog = <<>> /\ ppos = 0 /\ partySet = <<>> /\ ppc = "idle"

\* the 03 lines a log holds after its first lines: the players 1..n one
\* after the other, or such a sequence with a line put in at place p
HeaderSeqs ==
    LET upTo(n) == [j \in 1..n |-> j]
        putIn(q, p, t) == SubSeq(q, 1, p - 1) \o <<t>> \o SubSeq(q, p, Len(q))
    IN  {upTo(n) : n \in 0..NNames} \cup
        UNION {{putIn(upTo(n), p, t) : p \in {2, 3, n - 1},
                                       t \in {1, 2, NNames + 1, NNames + 2, NNames + 3}} :
                   n \in {3, NNames}}
\* the logs: ability lines, then 03 lines
PartyLogs ==
    {[j \in 1..n |-> 0] \o heads :
        n \in {0, MaxFiller - 8, MaxFiller - 5, MaxFiller - 1, MaxFiller},
        heads \in HeaderSeqs}

\* ------------------------------------------------- boss HP of an encounter
\* extractBossHpFromLines over lines.slice(encounterStart, i + 1), and the
\* lowest HP, the max HP and the percentage pushed with the encounter.  The
\* percentage is kept in tenths (13.7 is 137).

MaxHpLines == 4

\* a line of 38/39 telemetry: parts[3] the actor's name, parts[5] and
\* parts[6] the texts of the current and the max HP
HpLine(op, nf, name, curHp, maxHp) ==
    [op |-> op, nf |-> nf, p3 |-> name, p5 |-> curHp, p6 |-> maxHp]
HpLib == <<
    HpLine("38", 8, NameTitan, <<"5","0","0">>, <<"1","0","0","0">>),     \* 1
    HpLine("39", 8, NameTitan, <<"0">>, <<"1","0","0","0">>),             \* 2
    HpLine("38", 8, <<"t","i","t","a","n">>, <<"1","3","7">>, <<"1","0","0","0">>),  \* 3
    HpLine("38", 8, NameP1, <<"2","0">>, <<"1","0","0">>),                \* 4 a player's HP
    HpLine("38", 8, NameTitan, <<>>, <<"1","0","0","0">>),                \* 5 no current HP
    HpLine("21", 8, NameTitan, <<"7">>, <<"1","0","0","0">>),             \* 6 not telemetry
    HpLine("38", 6, NameTitan, <<"5">>, <<>>),                            \* 7 parts.length < 7
    HpLine("39", 8, NameTitan, <<"x">>, <<"1","0","0","0">>)              \* 8 no number
  >>
\* Number(text) of a text without white space: 0 for the empty text, NaN
\* for a text that is not all digits
NumberOf(text) ==
    IF \A ix \in 1..Len(text) : text[ix] \in DigitChars THEN DigitsValue(text) ELSE NaN
\* the test under which extractBossHpFromLines pushes an entry for a line
hpEntry(l, bossName) ==
    /\ l.nf >= 7 /\ l.op \in {"38", "39"}
    /\ l.p3 # <<>> /\ Includes(ToLower(l.p3), ToLower(bossName))
    /\ NumberOf(l.p5) # NaN /\ NumberOf(l.p6) # NaN
HpEntryOf ==
    Tabulated([t \in DOMAIN HpLib |->
        [b \in {<<>>, NameTitan} |->
            [ok |-> hpEntry(HpLib[t], b),
             hp |-> NumberOf(HpLib[t].p5), maxHp |-> NumberOf(HpLib[t].p6)]]])
\* extractBossHpFromLines(lines, bossName), lines given by their names
extractBossHpFromLines(ls, bossName) ==
    LET Keep(t) == HpEntryOf[t][bossName].ok
    IN  [p \in DOMAIN SelectSeq(ls, Keep) |-> HpEntryOf[SelectSeq(ls, Keep)[p]][bossName]]
\* bossHpEntries.reduce((min, entry) => Math.min(min, entry.hp), bossHpEntries[0].hp)
lowestOf(entries) ==
    IF entries = <<>> THEN Null
    ELSE MinOf({entries[p].hp : p \in DOMAIN entries})
\* Math.round((lowestBossHp / maxHp) * 1000) / 10, in tenths; Null when
\* there is no lowest HP or maxHp is 0 or null
pctOf(lowest, maxHp) ==
    IF lowest = 0 THEN 0
    ELSE IF lowest # Null /\ maxHp # Null /\ maxHp # 0
    THEN (2 * lowest * 1000 + maxHp) \div (2 * maxHp)
    ELSE Null

\* const encounterLines = lines.slice(encounterStart, i + 1); const
\* bossHpEntries = extractBossHpFromLines(encounterLines, encounterBoss)
BossHpExtract ==
    /\ bpc = "end"
    /\ bossHpEntries' =
           extractBossHpFromLines(SubSeq(hpLog, hpStart + 1, hpEnd + 1), encounterBoss)
    /\ bpc' = "entries"
    /\ UNCHANGED <<logVars, clsVars, idleVars, stripVars, handlerVars, dmgVars, partyVars, nameVars, encVars,
                   hpLog, hpStart, hpEnd, encounterBoss, hpSummary>>

\* lowestBossHp, maxHp, lowestBossHpPct of the encounter pushed
BossHpPush ==
    /\ bpc = "entries"
    /\ LET lowest == lowestOf(bossHpEntries)
           first == IF bossHpEntries = <<>> THEN Null ELSE bossHpEntries[1].maxHp
       IN  hpSummary' = [lowestBossHp |-> lowest, maxHp |-> first,
                         lowestBossHpPct |-> pctOf(lowest, first)]
    /\ bpc' = "pushed"
    /\ UNCHANGED <<logVars, clsVars, idleVars, stripVars, handlerVars, dmgVars, partyVars, nameVars, encVars,
                   hpLog, hpStart, hpEnd, encounterBoss, bossHpEntries>>

NoSummary == [lowestBossHp |-> Null, maxHp |-> Null, lowestBossHpPct |-> Null]
\* no encounter is being pushed
BossHpIdle ==
    /\ hpLog = <<>> /\ hpStart = 0 /\ hpEnd = 0 /\ encounterBoss = <<>>
    /\ bossHpEntries = <<>> /\ hpSummary = NoSummary /\ bpc = "idle"

\* ------------------------------------- instance and boss of an encounter
\* getBossNameAndInstance of splitEncountersByBossOrWipe, and the prologue
\* of scanLogForEncounters with the guessBossNames of its caller.  The log
\* is a few lines, MaxFiller lines that name nothing, and a few lines more.

MaxNameHead == 1
MaxNameTail == 2
NameWindow == 200               \* Math.min(200, lines.length)

NameGaruda == <<"G","a","r","u","d","a">>
TxtHowlingEye == <<"T","h","e"," ","H","o","w","l","i","n","g"," ","E","y","e">>
TxtUnknownDuty == <<"U","n","k","n","o","w","n"," ","D","u","t","y">>
TxtUnknownBoss == <<"U","n","k","n","o","w","n"," ","B","o","s","s">>
\* the library: instanceBossLibrary.json, of which one entry
instanceBossLibrary ==
    << [instance |-> TxtHowlingEye, bosses |-> <<NameGaruda>>,
        duty_keywords |-> <<ToLower(TxtHowlingEye)>>] >>

NameLines == <<
    LogLine("21", Id1, NameP1Srv, <<>>, TxtCure, NameP1Srv),                    \* 1 names nothing
    LogLine("21", Id1, NameP1Srv, <<>>, TxtAttack, NameGaruda),                 \* 2 an action on Garuda
    Msg00(NameGaruda \o TxtIsDefeated \o <<".">>),                              \* 3 "Garuda is defeated."
    LogLine("21", Id1, NameP1Srv, <<>>, TxtAttack, NameTitan),                  \* 4 an action on Titan
    Msg00(NameP1 \o <<" ">> \o TxtDefeats \o <<" ">> \o NameTitan \o <<".">>),  \* 5 "Al Bo defeats Titan."
    \* 6 "Al Bo hits Titan for 120 damage."
    Msg00(NameP1 \o <<" ">> \o TxtHits \o <<" ">> \o NameTitan \o <<" ">> \o TxtFor
              \o <<" ","1","2","0"," ">> \o TxtDamage \o <<".">>),
    LogLine("01", <<>>, TxtHowlingEye, <<>>, <<>>, <<>>)                        \* 7 the duty's name
  >>
\* the fields of a line in their order; the text of a line without its
\* opcode and timestamp
FieldSeq(l) == <<l.p2, l.p3, l.p4, l.p5, l.p7>>
lineText(l) ==
    l.p2 \o <<"|">> \o l.p3 \o <<"|">> \o l.p4 \o <<"|">> \o l.p5 \o <<"|">> \o l.p7

\* found.add(e), party.add(e): a Set keeps the order of insertion
setAdd(q, e) == IF e \in Range(q) THEN q ELSE Append(q, e)
RECURSIVE setAddAll(_, _)
setAddAll(q, es) == IF es = <<>> THEN q ELSE setAddAll(setAdd(q, Head(es)), Tail(es))

\* m[1] of /defeats\s+(.+?)\./i on a line (<<>>: no match)
defeatsCapture(l) ==
    LET s == lineText(l)
        ok(ix, e) == /\ OccursAt(ToLower(s), TxtDefeats, ix)
                     /\ ix + 7 <= Len(s) /\ s[ix + 7] = " "
                     /\ e > ix + 8 /\ e <= Len(s) /\ s[e] = "."
        starts == {ix \in 1..Len(s) : \E e \in 1..Len(s) : ok(ix, e)}
    IN  IF starts = {} THEN <<>>
        ELSE LET ix == MinOf(starts)
                 e == MinOf({x \in 1..Len(s) : ok(ix, x)})
             IN  SubSeq(s, ix + 8, e - 1)
\* n[1] of /hits\s+(.+?)\s+for\s+\d+\s+damage/i on a line
hitsCapture(l) ==
    LET s == lineText(l)
        low == ToLower(s)
        ok(ix, u) == /\ OccursAt(low, TxtHits, ix)
                     /\ ix + 4 <= Len(s) /\ s[ix + 4] = " "
                     /\ u > ix + 5
                     /\ \E f \in (u + 1)..Len(s) :
                            Spaces(s, u, f - 1) /\ OccursAt(low, TxtFor, f)
                                /\ DigitsThenDamage(low, f + 3)
        starts == {ix \in 1..Len(s) : \E u \in 1..Len(s) : ok(ix, u)}
    IN  IF starts = {} THEN <<>>
        ELSE LET ix == MinOf(starts)
                 u == MinOf({x \in 1..Len(s) : ok(ix, x)})
             IN  SubSeq(s, ix + 5, u - 1)
\* n[1] of /(.+?) is defeated\./i on a line: the text before the phrase
lineDefeatedCapture(l) ==
    LET s == lineText(l)
        ks == {k \in 1..Len(s) : OccursAt(ToLower(s), TxtIsDefeated \o <<".">>, k + 1)}
    IN  IF ks = {} THEN <<>> ELSE SubSeq(s, 1, MinOf(ks))

NoNames == [instance |-> <<>>, boss |-> <<>>]
Unknowns == [instance |-> TxtUnknownDuty, boss |-> TxtUnknownBoss]
\* line.includes(x), line.toLowerCase().includes(x.toLowerCase())
lineIncludes(l, x) == \E f \in Fields(l) : Includes(f, x)
lineIncludesLower(l, x) == \E f \in Fields(l) : Includes(ToLower(f), ToLower(x))

\* findInstanceAndBoss(line) of the scan
findInstanceAndBoss(l) ==
    LET hit(e) == \/ \E kw \in Range(e.duty_keywords) : lineIncludesLower(l, kw)
                  \/ \E b \in Range(e.bosses) : lineIncludesLower(l, b)
        hits == {n \in DOMAIN instanceBossLibrary : hit(instanceBossLibrary[n])}
    IN  IF hits = {} THEN Unknowns
        ELSE LET e == instanceBossLibrary[MinOf(hits)]
             IN  IF \E kw \in Range(e.duty_keywords) : lineIncludesLower(l, kw)
                 THEN [instance |-> e.instance,
                       boss |-> IF e.bosses = <<>> THEN <<>> ELSE e.bosses[1]]
                 ELSE [instance |-> e.instance,
                       boss |-> e.bosses[MinOf({n \in DOMAIN e.bosses :
                                                  lineIncludesLower(l, e.bosses[n])})]]
FoundIn == Tabulated([t \in DOMAIN NameLines |-> findInstanceAndBoss(NameLines[t])])
\* the prologue of the scan over the first 200 lines: encounterInstance and
\* encounterBoss, "" when no line gives one
scanNames(ls) ==
    LET window == SubSeq(ls, 1, IF Len(ls) < NameWindow THEN Len(ls) ELSE NameWindow)
        inst == {j \in DOMAIN window : FoundIn[window[j]].instance # TxtUnknownDuty}
        bossAt == {j \in DOMAIN window : FoundIn[window[j]].boss \notin {TxtUnknownBoss, <<>>}}
    IN  [instance |-> IF inst = {} THEN <<>> ELSE FoundIn[window[MinOf(inst)]].instance,
         boss |-> IF bossAt = {} THEN <<>> ELSE FoundIn[window[MinOf(bossAt)]].boss]
\* matchInstanceAndBoss(lines, instanceBossLibrary) for one line: the first
\* pass (the instance's name in the line) and the second (a boss's name)
matchFirst(l) ==
    LET ok(e) == lineIncludes(l, e.instance)
                    /\ (Len(e.bosses) = 1 \/ \E b \in Range(e.bosses) : lineIncludes(l, b))
        hits == {n \in DOMAIN instanceBossLibrary : ok(instanceBossLibrary[n])}
    IN  IF hits = {} THEN NoNames
        ELSE LET e == instanceBossLibrary[MinOf(hits)]
                 named == {n \in DOMAIN e.bosses : lineIncludes(l, e.bosses[n])}
             IN  [instance |-> e.instance,
                  boss |-> IF named # {} THEN e.bosses[MinOf(named)] ELSE e.bosses[1]]
matchSecond(l) ==
    LET ok(e) == \E b \in Range(e.bosses) : lineIncludes(l, b)
        hits == {n \in DOMAIN instanceBossLibrary : ok(instanceBossLibrary[n])}
    IN  IF hits = {} THEN NoNames
        ELSE LET e == instanceBossLibrary[MinOf(hits)]
             IN  [instance |-> e.instance,
                  boss |-> e.bosses[MinOf({n \in DOMAIN e.bosses : lineIncludes(l, e.bosses[n])})]]
\* the fallback of getBossNameAndInstance for one line
fallbackOf(l) ==
    IF defeatsCapture(l) # <<>> THEN [instance |-> TxtUnknownDuty, boss |-> defeatsCapture(l)]
    ELSE IF hitsCapture(l) # <<>> THEN [instance |-> TxtUnknownDuty, boss |-> hitsCapture(l)]
    ELSE NoNames
\* what guessBossNames adds for one line when the library names no boss
guessOf(l) ==
    (IF defeatsCapture(l) # <<>> THEN <<defeatsCapture(l)>> ELSE <<>>)
        \o (IF lineDefeatedCapture(l) # <<>> THEN <<lineDefeatedCapture(l)>> ELSE <<>>)
NamesOf ==
    Tabulated([t \in DOMAIN NameLines |->
        [first |-> matchFirst(NameLines[t]), second |-> matchSecond(NameLines[t]),
         fallback |-> fallbackOf(NameLines[t]), guess |-> guessOf(NameLines[t]),
         libBosses |-> {b \in Range(instanceBossLibrary[1].bosses) :
                           lineIncludesLower(NameLines[t], b)}]])
\* the first line of ls for which the table's column gives names
firstNames(ls, col) ==
    LET js == {j \in DOMAIN ls : NamesOf[ls[j]][col] # NoNames}
    IN  IF js = {} THEN NoNames ELSE NamesOf[ls[MinOf(js)]][col]
\* getBossNameAndInstance(lines)
getBossNameAndInstance(ls) ==
    IF firstNames(ls, "first") # NoNames THEN firstNames(ls, "first")
    ELSE IF firstNames(ls, "second") # NoNames THEN firstNames(ls, "second")
    ELSE IF firstNames(ls, "fallback") # NoNames THEN firstNames(ls, "fallback")
    ELSE Unknowns
\* guessBossNames(lines)
FirstOf(ls, t) == MinOf({j \in DOMAIN ls : ls[j] = t})
RECURSIVE guessAll(_, _, _)
guessAll(ls, j, q) ==
    IF j > Len(ls) THEN q ELSE guessAll(ls, j + 1, setAddAll(q, NamesOf[ls[j]].guess))
guessBossNames(ls) ==
    LET lib == SelectSeq(instanceBossLibrary[1].bosses,
                         LAMBDA b : \E j \in DOMAIN ls : b \in NamesOf[ls[j]].libBosses)
        \* a line equal to an earlier one adds nothing to the Set
        firsts == InOrder({FirstOf(ls, t) : t \in Range(ls)})
        distinct == [n \in DOMAIN firsts |-> ls[firsts[n]]]
    IN  IF lib # <<>> THEN lib
        ELSE IF guessAll(distinct, 1, <<>>) # <<>> THEN guessAll(distinct, 1, <<>>)
        ELSE <<TxtUnknownBoss>>

\* the names are resolved before the loop over the lines
NamesResolve ==
    /\ npc = "start"
    /\ resolved' = IF nmImpl = "split" THEN getBossNameAndInstance(nmLog) ELSE scanNames(nmLog)
    /\ guessed' = IF nmImpl = "scan" THEN guessBossNames(nmLog) ELSE <<>>
    /\ npc' = "loop"
    /\ UNCHANGED <<logVars, clsVars, idleVars, stripVars, handlerVars, dmgVars, partyVars, hpVars, encVars,
                   nmLog, nmImpl, pushed>>

\* the log holds a pull that is pushed: in the split one opened on an action
\* line of a party member, in the scan one opened on a boss action and
\* ended by a boss kill
canPush(which, ls, bn) ==
    IF which = "split" THEN \E t \in Range(ls) : NameLines[t].op \in ActionOps
    ELSE \E ta \in Range(ls) : \E tk \in Range(ls) :
            /\ isBossAction(NameLines[ta], bn) /\ isBossKill(NameLines[tk], bn)
            /\ \E j \in DOMAIN ls : ls[j] = tk /\ FirstOf(ls, ta) < j
\* encounters.push({..., boss, instance, ...}) for a pull of the log
NamesPush ==
    /\ npc = "loop"
    /\ canPush(nmImpl, nmLog, guessed)
    /\ pushed' = resolved
    /\ npc' = "pushed"
    /\ UNCHANGED <<logVars, clsVars, idleVars, stripVars, handlerVars, dmgVars, partyVars, hpVars, encVars,
                   nmLog, nmImpl, resolved, guessed>>
\* the loop ends with no pull
NamesNone ==
    /\ npc = "loop"
    /\ ~canPush(nmImpl, nmLog, guessed)
    /\ npc' = "none"
    /\ UNCHANGED <<logVars, clsVars, idleVars, stripVars, handlerVars, dmgVars, partyVars, hpVars, encVars,
                   nmLog, nmImpl, resolved, guessed, pushed>>

\* no resolution of names is under way
NamesIdle ==
    /\ nmLog = <<>> /\ nmImpl = "none" /\ resolved = NoNames /\ guessed = <<>>
    /\ pushed = NoNames /\ npc = "idle"

\* ------------------------------------------ the parse-encounter handler
\* The Deno.serve handler of parse-encounter serving two requests for the
\* same encounter_id, split at its awaits on the tables.  The download and
\* the scan of the log give the same events to every request (ready, with
\* the attacker's name for actor_id until idByName is known).

MaxEvents == 2                  \* events of the encounter
MaxCalls == 2                   \* calls of the client for one request
NoRow == 0

\* Math.max(1, Math.round((endMs - startMs) / 1000)) (durSecOf_Floor: with
\* Math.floor)
durSecOf_Floor(startMs, endMs) ==
    LET r == (endMs - startMs) \div 1000
    IN  IF r > 1 THEN r ELSE 1
durSecOf(startMs, endMs) ==
    LET r == (endMs - startMs + 500) \div 1000
    IN  IF r > 1 THEN r ELSE 1
\* startMs = toMs(start_ts) ?? Date.now(); endMs = toMs(end_ts) ?? startMs
durSecOfRow(row) ==
    LET startMs == IF toMs(row.start_ts) # Null THEN toMs(row.start_ts) ELSE WallClock
        endMs == IF toMs(row.end_ts) # Null THEN toMs(row.end_ts) ELSE startMs
    IN  durSecOf(startMs, endMs)
\* totals: for (const r of sums) totals.set(r.actor_id, (totals.get(...) || 0) + (r.amount || 0))
totalOf(rows, id) ==
    LET Amount(j) == IF rows[j].actor_id = id THEN rows[j].amount ELSE 0
        sumTo[j \in 0..Len(rows)] == IF j = 0 THEN 0 ELSE sumTo[j - 1] + Amount(j)
    IN  sumTo[Len(rows)]
\* metricsRows: dps is total / durSec, kept as the two numbers
metricsOf(rows, row) ==
    {[actor_id |-> id, total |-> totalOf(rows, id), durSec |-> durSecOfRow(row),
      hps |-> 0, deaths |-> 0, uptime |-> 0] :
        id \in {rows[j].actor_id : j \in DOMAIN rows} \ {NoRow}}

\* the names of S in the order of allActorNames
InOrderOfReady(S) ==
    SelectSeq(<<"Al Bo", "Cy Di", "Titan">>, LAMBDA n : n \in S)

\* the request is received and selects the encounter's row: if
\* (encounter.details_parsed) return "Encounter already parsed"
EFetch(r) ==
    /\ epc[r] = "start" /\ calls[r] > 0
    /\ calls' = [calls EXCEPT ![r] = @ - 1]
    /\ fetched' = [fetched EXCEPT ![r] = encRec]
    /\ epc' = [epc EXCEPT ![r] = IF encRec.details_parsed THEN "already" ELSE "actors"]
    /\ UNCHANGED <<logVars, clsVars, idleVars, stripVars, handlerVars, dmgVars, partyVars, hpVars, nameVars,
                   encRec, ready, actorRows, eventRows, metricRows, idByName, sums, efail>>

\* .from("actors").select("id,name").eq("encounter_id", ...).in("name", allActorNames)
EActorsSelect(r) ==
    /\ epc[r] = "actors"
    /\ idByName' = [idByName EXCEPT ![r] =
          [n \in {ready[j].tmpName : j \in DOMAIN ready} |->
              LET ids == {a \in DOMAIN actorRows : actorRows[a] = n}
              IN  IF ids = {} THEN NoRow
                  ELSE CHOOSE a \in ids : \A b \in ids : b <= a]]
    /\ epc' = [epc EXCEPT ![r] = "missing"]
    /\ UNCHANGED <<logVars, clsVars, idleVars, stripVars, handlerVars, dmgVars, partyVars, hpVars, nameVars,
                   encRec, ready, actorRows, eventRows, metricRows, fetched, sums, efail, calls>>

\* .from("actors").insert(missing).select("id,name")
EActorsInsert(r) ==
    /\ epc[r] = "missing"
    /\ LET missing == InOrderOfReady({n \in DOMAIN idByName[r] : idByName[r][n] = NoRow})
       IN  /\ actorRows' = actorRows \o missing
           /\ idByName' = [idByName EXCEPT ![r] =
                 [n \in DOMAIN idByName[r] |->
                     IF idByName[r][n] # NoRow THEN idByName[r][n]
                     ELSE Len(actorRows) + (CHOOSE p \in DOMAIN missing : missing[p] = n)]]
    /\ epc' = [epc EXCEPT ![r] = IF ready = <<>> THEN "noevents" ELSE "events"]
    /\ UNCHANGED <<logVars, clsVars, idleVars, stripVars, handlerVars, dmgVars, partyVars, hpVars, nameVars,
                   encRec, ready, eventRows, metricRows, fetched, sums, efail, calls>>

\* .from('events').insert(chunk), all the events being one chunk
EEventsInsert(r) ==
    /\ epc[r] = "events"
    /\ eventRows' = eventRows \o
          [j \in DOMAIN ready |-> [actor_id |-> idByName[r][ready[j].tmpName],
                                   amount |-> ready[j].amount]]
    /\ epc' = [epc EXCEPT ![r] = "sums"]
    /\ UNCHANGED <<logVars, clsVars, idleVars, stripVars, handlerVars, dmgVars, partyVars, hpVars, nameVars,
                   encRec, ready, actorRows, metricRows, fetched, idByName, sums, efail, calls>>

\* .from("events").select("actor_id, amount").eq("encounter_id", ...).eq("type", "dmg"),
\* or its error: if (sumsErr) throw sumsErr
EMetricsSelect(r) ==
    /\ epc[r] = "sums"
    /\ IF efail[r]
       THEN /\ epc' = [epc EXCEPT ![r] = "error"]
            /\ efail' = [efail EXCEPT ![r] = FALSE]
            /\ UNCHANGED sums
       ELSE /\ sums' = [sums EXCEPT ![r] = eventRows]
            /\ epc' = [epc EXCEPT ![r] = "upsert"]
            /\ UNCHANGED efail
    /\ UNCHANGED <<logVars, clsVars, idleVars, stripVars, handlerVars, dmgVars, partyVars, hpVars, nameVars,
                   encRec, ready, actorRows, eventRows, metricRows, fetched, idByName, calls>>

\* .from("metrics").upsert(metricsRows): a row replaces the one of its actor
EMetricsUpsert(r) ==
    /\ epc[r] = "upsert"
    /\ LET rows == metricsOf(sums[r], fetched[r])
       IN  metricRows' =
              {m \in metricRows : \A n \in rows : n.actor_id # m.actor_id} \cup rows
    /\ epc' = [epc EXCEPT ![r] = "mark"]
    /\ UNCHANGED <<logVars, clsVars, idleVars, stripVars, handlerVars, dmgVars, partyVars, hpVars, nameVars,
                   encRec, ready, actorRows, eventRows, fetched, idByName, sums, efail, calls>>

\* .from("encounters").update({ details_parsed: true }), and the response
EMark(r) ==
    /\ epc[r] = "mark"
    /\ encRec' = [encRec EXCEPT !.details_parsed = TRUE]
    /\ epc' = [epc EXCEPT ![r] = "ok"]
    /\ UNCHANGED <<logVars, clsVars, idleVars, stripVars, handlerVars, dmgVars, partyVars, hpVars, nameVars,
                   ready, actorRows, eventRows, metricRows, fetched, idByName, sums, efail, calls>>

\* handleParseDetails of the page: after an error response the button is
\* enabled again and the user calls once more
ERetry(r) ==
    /\ epc[r] \in {"error", "noevents"} /\ calls[r] > 0
    /\ epc' = [epc EXCEPT ![r] = "start"]
    /\ UNCHANGED <<logVars, clsVars, idleVars, stripVars, handlerVars, dmgVars, partyVars, hpVars, nameVars,
                   encRec, ready, actorRows, eventRows, metricRows, fetched, idByName, sums,
                   efail, calls>>

NoEncRow == [start_ts |-> Null, end_ts |-> Null, details_parsed |-> FALSE]
\* no parse-encounter request is under way
EncIdle ==
    /\ encRec = NoEncRow /\ ready = <<>> /\ actorRows = <<>> /\ eventRows = <<>>
    /\ metricRows = {}
    /\ epc = [r \in Requests |-> "idle"]
    /\ fetched = [r \in Requests |-> NoEncRow]
    /\ idByName = [r \in Requests |-> <<>>]
    /\ sums = [r \in Requests |-> <<>>]
    /\ efail = [r \in Requests |-> FALSE]
    /\ calls = [r \in Requests |-> 0]

\* none of the other functions is running
\* ---- stripServer(name), and stripServer of what it returned

MaxNameLen == 6
\* the characters names are made of: two capitals, a small letter, the
\* space, and the character that follows "Z"
StripChars == {"A", "Z", "b", " ", "["}
StripNames == UNION {[1..n -> StripChars] : n \in 0..MaxNameLen}

\* const canon = stripServer(name)
StripFirst ==
    /\ spc = "start"
    /\ stripped' = stripServer(rawName)
    /\ spc' = "once"
    /\ UNCHANGED <<logVars, clsVars, idleVars, handlerVars, dmgVars, partyVars, hpVars,
                   nameVars, encVars, rawName, restripped>>
\* stripServer(canon): the call on a name that is canonical already
StripSecond ==
    /\ spc = "once"
    /\ restripped' = stripServer(stripped)
    /\ spc' = "done"
    /\ UNCHANGED <<logVars, clsVars, idleVars, handlerVars, dmgVars, partyVars, hpVars,
                   nameVars, encVars, rawName, stripped>>

\* no name is being canonicalised
StripIdle == rawName = <<>> /\ stripped = <<>> /\ restripped = <<>> /\ spc = "idle"

MoreIdle ==
    HandlerIdle /\ DamageIdle /\ PartyIdle /\ BossHpIdle /\ NamesIdle /\ EncIdle /\ StripIdle

\* ---- the runs
\* The state on entry to the loop's first body line.  The 03 lines come
\* first in the log and change nothing in either loop.
\* scanLogForEncounters takes no thresholds: there minLines is only the
\* length a pull is measured by.
Init ==
    /\ impl \in {"split", "scan"}
    /\ hdr \in DOMAIN HeaderLib
    /\ boss \in DOMAIN BossLib
    /\ minLines \in MinLinesChoices
    /\ pc = "run"
    /\ i = Len(HeaderLib[hdr])
    /\ clock = T0
    /\ badTs = 0
    /\ cur \in {EndOfLog} \cup
               {[k |-> k, ts |-> IF LineInfo(hdr, boss, k).nf < 2 THEN NoTs ELSE T0] :
                    k \in 1..NLib}
    /\ inEncounter = FALSE
    /\ partyAlive = AllAlive(IF impl = "split" THEN Range(PartyOf[hdr])
                             ELSE Canonical(PartyOf[hdr]))
    /\ encounterStartTs = Null
    /\ encounterStart = 0
    /\ currentLen = 0
    /\ currentLastTs = Null
    /\ wipePendingSince = Null
    /\ lastWipeMs = Null
    /\ deathLog = <<>>
    /\ reviveLog = <<>>
    /\ encounters = <<>>
    /\ ev = Ev("init", FALSE, FALSE, partyAlive, <<>>)
    /\ outcome = "none"
    /\ ClsIdle
    /\ IdleIdle
    /\ MoreIdle

Next ==
    \/ \E nx \in NextChoices : SplitLine(nx)
    \/ SplitNoRoster
    \/ SplitFinish
    \/ \E nx \in NextChoices : ScanLine(nx)
    \/ ScanFinish
    \/ ScanNoParty

Spec == Init /\ [][Next]_vars

\* no log is being segmented
LogIdle ==
    /\ impl = "none" /\ hdr = 1 /\ boss = 1 /\ minLines = 8
    /\ pc = "idle" /\ i = 0 /\ cur = EndOfLog /\ clock = T0 /\ badTs = 0
    /\ inEncounter = FALSE /\ partyAlive = <<>>
    /\ encounterStartTs = Null /\ encounterStart = 0
    /\ currentLen = 0 /\ currentLastTs = Null
    /\ wipePendingSince = Null /\ lastWipeMs = Null
    /\ deathLog = <<>> /\ reviveLog = <<>>
    /\ encounters = <<>>
    /\ ev = Ev("init", FALSE, FALSE, <<>>, <<>>)
    /\ outcome = "none"

\* classifyActors is entered with an actor map of one encounter
InitClassify ==
    /\ LogIdle
    /\ IdleIdle
    /\ MoreIdle
    /\ ver \in {"deno", "node"}
    /\ actors \in ActorMaps
    /\ npcs = <<>>
    /\ classified = EmptyResult
    /\ cpc = "start"
    /\ at = 1
    /\ run = 1
    /\ firstRun = EmptyResult

NextClassify ==
    \/ DenoPlayerPass
    \/ DenoNpcStep
    \/ DenoFallback
    \/ NodeActorStep
    \/ NodeFallback
    \/ Rerun

SpecClassify == InitClassify /\ [][NextClassify]_vars

\* splitByDamageIdle is entered with a log
InitIdle ==
    /\ LogIdle
    /\ ClsIdle
    /\ MoreIdle
    /\ \E n \in 0..MaxIdleLines : idleLines \in IdleLogs(n)
    /\ idxs = <<>>
    /\ cuts = <<>>
    /\ fights = <<>>
    /\ ipc = "collect"

NextIdle ==
    \/ IdleCollect
    \/ IdleWhole
    \/ IdleCut
    \/ IdleFights

SpecIdle == InitIdle /\ [][NextIdle]_vars

\* two requests have arrived, each for its own upload
InitHandler ==
    /\ LogIdle /\ ClsIdle /\ IdleIdle /\ DamageIdle /\ PartyIdle /\ BossHpIdle /\ NamesIdle /\ EncIdle /\ StripIdle
    /\ moduleUploadId = NoUpload
    /\ uploads = [u \in Requests |-> UploadRow("uploaded", NoRequest, "", NoRequest)]
    /\ encRows = <<>>
    /\ nFights \in [Requests -> 0..MaxFights]
    /\ failAt \in [Requests -> {"none", "sign", "fetch", "text"}]
    /\ hpc = [r \in Requests |-> 0]
    /\ encounterIds = [r \in Requests |-> <<>>]
    /\ response = [r \in Requests |-> NoResponse]

NextHandler ==
    \E r \in Requests :
        \/ HReceive(r)
        \/ HNote(r)
        \/ HAwait(r)
        \/ HInsert(r)
        \/ HComplete(r)
        \/ HReturn(r)

SpecHandler == InitHandler /\ [][NextHandler]_vars

\* the scan is entered with the lines of one encounter
InitDamage ==
    /\ LogIdle /\ ClsIdle /\ IdleIdle /\ HandlerIdle /\ PartyIdle /\ BossHpIdle /\ NamesIdle /\ EncIdle /\ StripIdle
    /\ dmgLog \in UNION {[1..n -> 1..Len(DmgLib)] : n \in 0..MaxDmgLines}
    /\ dpos = 1
    /\ actorStats = <<>>
    /\ statOrder = <<>>
    /\ events = <<>>
    /\ dpc = "scan"

NextDamage ==
    \/ DamageLine
    \/ DamageEnd
    \/ DamageClassify
    \/ DenoPlayerPass
    \/ DenoNpcStep
    \/ DenoFallback
    \/ DamageStore

SpecDamage == InitDamage /\ [][NextDamage]_vars

\* parsePartyMembers is entered with a log
InitParty ==
    /\ LogIdle /\ ClsIdle /\ IdleIdle /\ HandlerIdle /\ DamageIdle /\ BossHpIdle /\ NamesIdle /\ EncIdle /\ StripIdle
    /\ partyLog \in PartyLogs
    /\ ppos = 1
    /\ partySet = <<>>
    /\ ppc = "scan"

NextParty ==
    \/ PartyScanLine
    \/ PartyReturn

SpecParty == InitParty /\ [][NextParty]_vars

\* an encounter that began at line hpStart has ended at line hpEnd
InitBossHp ==
    /\ LogIdle /\ ClsIdle /\ IdleIdle /\ HandlerIdle /\ DamageIdle /\ PartyIdle /\ NamesIdle /\ EncIdle /\ StripIdle
    /\ \E n \in 1..MaxHpLines :
          /\ hpLog \in [1..n -> DOMAIN HpLib]
          /\ hpStart \in 0..(n - 1)
          /\ hpEnd \in hpStart..(n - 1)
    /\ encounterBoss \in {<<>>, NameTitan}
    /\ bossHpEntries = <<>>
    /\ hpSummary = NoSummary
    /\ bpc = "end"

NextBossHp ==
    \/ BossHpExtract
    \/ BossHpPush

SpecBossHp == InitBossHp /\ [][NextBossHp]_vars

\* the logs of the names: up to MaxNameHead lines, no or MaxFiller lines
\* that name nothing, up to MaxNameTail lines
NameSeqs(n) == UNION {[1..m -> DOMAIN NameLines] : m \in 0..n}
InitNames ==
    /\ LogIdle /\ ClsIdle /\ IdleIdle /\ HandlerIdle /\ DamageIdle /\ PartyIdle /\ BossHpIdle /\ EncIdle /\ StripIdle
    /\ \E h \in NameSeqs(MaxNameHead) : \E f \in {0, MaxFiller} : \E t \in NameSeqs(MaxNameTail) :
          nmLog = h \o [j \in 1..f |-> 1] \o t
    /\ nmImpl \in {"split", "scan"}
    /\ resolved = NoNames
    /\ guessed = <<>>
    /\ pushed = NoNames
    /\ npc = "start"

NextNames ==
    \/ NamesResolve
    \/ NamesPush
    \/ NamesNone

SpecNames == InitNames /\ [][NextNames]_vars

\* an encounter of stage 1, not yet parsed, and two requests for it: the
\* first may fail once and be called again, the second is called at most once
ReadyEvents ==
    UNION {[1..n -> [tmpName : {"Al Bo", "Cy Di"}, amount : {120, 50}]] : n \in 0..MaxEvents}
InitEncounter ==
    /\ LogIdle /\ ClsIdle /\ IdleIdle /\ HandlerIdle /\ DamageIdle /\ PartyIdle /\ BossHpIdle /\ StripIdle
    /\ NamesIdle
    /\ \E st \in {10000, Null} : \E en \in {9000, 10000, 10499, 10500, 12500, Null} :
          encRec = [start_ts |-> st, end_ts |-> en, details_parsed |-> FALSE]
    /\ ready \in ReadyEvents
    /\ actorRows = <<>> /\ eventRows = <<>> /\ metricRows = {}
    /\ epc = [r \in Requests |-> "start"]
    /\ fetched = [r \in Requests |-> NoEncRow]
    /\ idByName = [r \in Requests |-> <<>>]
    /\ sums = [r \in Requests |-> <<>>]
    /\ efail \in {[r \in Requests |-> r = 1 /\ b] : b \in BOOLEAN}
    /\ calls \in {[r \in Requests |-> IF r = 1 THEN MaxCalls ELSE c] : c \in 0..1}

NextEncounter ==
    \E r \in Requests :
        \/ EFetch(r)
        \/ EActorsSelect(r)
        \/ EActorsInsert(r)
        \/ EEventsInsert(r)
        \/ EMetricsSelect(r)
        \/ EMetricsUpsert(r)
        \/ EMark(r)
        \/ ERetry(r)

SpecEncounter == InitEncounter /\ [][NextEncounter]_vars

\* stripServer is called with a name
InitStrip ==
    /\ LogIdle /\ ClsIdle /\ IdleIdle /\ HandlerIdle /\ DamageIdle /\ PartyIdle
    /\ BossHpIdle /\ NamesIdle /\ EncIdle
    /\ rawName \in StripNames
    /\ stripped = <<>>
    /\ restripped = <<>>
    /\ spc = "start"

NextStrip ==
    \/ StripFirst
    \/ StripSecond

SpecStrip == InitStrip /\ [][NextStrip]_vars

\* ------------------------------------------------------------ properties

\* the roster: the keys the alive map is seeded with
Roster == IF impl = "split" THEN Range(partyArray) ELSE Canonical(partyArray)
\* the step being taken processes the line cur
LineStep == pc = "run" /\ cur.k # 0 /\ partyArray # <<>>
\* the member the line cur revives, as the running implementation reads it
RevivedHere == IF impl = "split" THEN CurLine.sRevive ELSE CurLine.mRevive
Last(q) == q[Len(q)]

\* C1: a pull is never closed as a wipe at a line where a roster member is
\* still marked alive: whenever the wipe termination has fired, every
\* roster member was marked not-alive in the map the wipe test read; and a
\* revive line for a member marked not-alive leaves that member marked alive.
C1_WipeOnlyWhenAllDead ==
    /\ [](ev.kind = "wipe" => \A n \in Roster : n \in DOMAIN ev.alive /\ ~ev.alive[n])
    /\ [][\A n \in Roster :
            (LineStep /\ (impl = "scan" => inEncounter) /\ RevivedHere = n /\ ~partyAlive[n])
                => partyAlive'[n] /\ ev'.alive[n]]_vars
\* a wipe has closed a pull of a two-member roster
C1_Witness ==
    /\ ev.kind = "wipe" /\ Cardinality(Roster) = 2 /\ ev.emitted
    /\ \A n \in Roster : ~ev.alive[n]

C3_KillEndsAtKillLine ==
    [][LineStep /\ impl = "scan" /\ inEncounter /\ CurLine.bKill
         /\ (\A n \in Roster : ev'.alive[n])
       => /\ Len(encounters') = Len(encounters) + 1
          /\ SubSeq(encounters', 1, Len(encounters)) = encounters
          /\ Last(encounters').type = "kill"
          /\ Last(encounters').end = cur.ts
          /\ Last(encounters').el = i
          /\ Last(encounters').sl = encounterStart
          /\ Last(encounters').start = encounterStartTs
          /\ ~inEncounter']_vars
\* a kill encounter was pushed with every roster member alive
C3_Witness ==
    /\ impl = "scan" /\ ev.kind = "kill" /\ \A n \in Roster : ev.alive[n]
    /\ encounters # <<>> /\ Last(encounters).type = "kill"
    /\ Last(encounters).end > Last(encounters).start

\* ---- what the claims say of a line, computed once per header, boss and line
LineFacts(l, head, party, bossName) ==
    [\* the line matches "defeats <bossName>" or "<bossName> is defeated"
     killPhrase |->
        \/ DefeatsBoss(l, bossName)
        \/ \E f \in Fields(l) : Includes(ToLower(f), ToLower(bossName) \o TxtIsDefeated),
     \* an action-opcode line whose actor, by id or by name, is a roster member
     rosterActor |->
        /\ l.op \in ActionOps
        /\ \/ idToNameGet(head, l.p2) \in Range(party)
           \/ stripServer(l.p3) \in Canonical(party),
     \* an action-opcode line whose target or actor names the boss
     bossAction |->
        /\ l.op \in ActionOps
        /\ \E f \in {l.p3, l.p7} : Includes(ToLower(stripServer(f)), ToLower(bossName)),
     \* the member a resurrection action of the allow-list is used on
     raiseOn |->
        IF l.op \in {"21", "22"} /\ l.p5 \in raiseActions /\ party # <<>>
        THEN IF ToLower(l.p7) = TxtYou THEN party[1] ELSE stripServer(l.p7)
        ELSE <<>>,
     \* the name a "<name> is revived" / "has returned to the battle" text names
     reviveText |->
        IF l.op # "00" THEN <<>>
        ELSE IF ReviveCapture(l.p3) # <<>> THEN stripServer(Trim(ReviveCapture(l.p3)))
        ELSE IF ReviveCapture(l.p4) # <<>> THEN stripServer(Trim(ReviveCapture(l.p4)))
        ELSE <<>>]
FactTable ==
    Tabulated([c \in (DOMAIN HeaderLib) \X (DOMAIN BossLib) \X (1..NLib) |->
                  LineFacts(LineLib(BossLib[c[2]])[c[3]], HeaderLib[c[1]],
                            PartyOf[c[1]], BossLib[c[2]])])
CurFacts == FactTable[<<hdr, boss, cur.k>>]
\* a timestamp field that parses
Parses(ts) == ts >= 0

\* C4 (as claimed): whenever a pull is open and the line processed matches
\* "defeats <bossName>" or "<bossName> is defeated", the pull ends at that
\* line, whatever the alive map holds.
C4_KillPhraseEndsPull ==
    [][LineStep /\ CurLine.nf >= 2 /\ (inEncounter \/ ev'.opened) /\ CurFacts.killPhrase
         => ~inEncounter' /\ ev'.kind \in {"kill", "wipe"}]_vars

\* classifyActors has returned
Returned == cpc = "done"
\* the actor a met the boss thresholds of the running version
MeetsBoss(a) ==
    IF ver = "deno"
    THEN /\ ~actors[a].usesJobSkill
         /\ classifySingleNPC(actors, a, {b \in DOMAIN actors : ~actors[b].usesJobSkill}) = "boss"
    ELSE classifySingleActor(actors, a) = "boss"
Bosses == {a \in DOMAIN actors : actors[a].classification = "boss"}

\* C5: after classifyActors returns, at most one actor carries the
\* classification boss, and that actor is exactly result.boss; every other
\* actor that met the boss thresholds carries the classification add and is
\* in result.adds.
C5_SingleBoss ==
    Returned =>
        /\ Cardinality(Bosses) <= 1
        /\ \A a \in DOMAIN actors :
               actors[a].classification = "boss" <=> classified.boss = a
        /\ \A a \in DOMAIN actors :
               MeetsBoss(a) /\ a # classified.boss =>
                   /\ actors[a].classification = "add"
                   /\ a \in Range(classified.adds)
\* two actors met the boss thresholds and one of them was made an add
C5_Witness ==
    /\ Returned /\ ver = "deno"
    /\ \E a, b \in DOMAIN actors :
           /\ a # b /\ MeetsBoss(a) /\ MeetsBoss(b)
           /\ classified.boss = a
           /\ actors[b].classification = "add"

\* C6 (as claimed): for every actor map, result.boss is an actor (not null).
C6_BossNeverNull == Returned => classified.boss # NoActor
\* C6 (as amended): result.boss is null exactly when the map holds no
\* actor outside the players (an empty map included); in every other case
\* it is one actor of the map, and that actor is not a player.
C6_BossUnlessNoNpc ==
    Returned =>
        IF \A a \in DOMAIN actors : actors[a].usesJobSkill
        THEN classified.boss = NoActor
        ELSE /\ classified.boss \in DOMAIN actors
             /\ ~actors[classified.boss].usesJobSkill
\* no actor met the boss thresholds and the strongest add was promoted
C6_Witness ==
    /\ Returned /\ classified.boss # NoActor
    /\ \A a \in DOMAIN actors : ~MeetsBoss(a)
    /\ classified.adds # <<>>

\* C7 (as claimed): of two consecutive pushed encounters, the later one
\* starts at least 10000 ms after the earlier one ends.
C7_DebounceBetweenEncounters ==
    \A j \in 1..(Len(encounters) - 1) :
        (Parses(encounters[j].end) /\ Parses(encounters[j + 1].start))
            => encounters[j + 1].start - encounters[j].end >= PULL_DEBOUNCE_MS

\* the wipe rule of splitEncountersByBossOrWipe at the line cur, the line
\* after it being nextLine: tsMs is the line's timestamp, 0 if it does not
\* parse; since is the first line of the present all-dead stretch of the pull
GraceRule(since, nextLine) ==
    LET tsMs == IF Parses(cur.ts) THEN cur.ts ELSE 0
    IN  \/ tsMs - (IF since = Null THEN tsMs ELSE since) >= WIPE_GRACE_MS
        \/ ~Parses(nextLine.ts)
        \/ nextLine.ts - tsMs > WIPE_GRACE_MS

\* The wipe rule as the code applies it: in splitEncountersByBossOrWipe a wipe closes the pull
\* only at a line after which every roster member is not-alive and at which
\* 3000 ms have passed since the first line of the all-dead stretch, or the
\* next line is missing or carries no timestamp that parses, or the next
\* line's timestamp is more than 3000 ms later (a timestamp that does not
\* parse counting as 0); a pull left open with every member dead has none
\* of these hold at its last line; and the stretch is timed from its first line.
C8_WipeOnlyUnderGrace ==
    [][LineStep /\ impl = "split" /\ CurLine.nf >= 2 =>
         /\ ev'.kind = "wipe" =>
               AllDead(ev'.alive) /\ GraceRule(wipePendingSince, cur')
         /\ inEncounter' /\ AllDead(partyAlive') =>
               /\ ~GraceRule(wipePendingSince, cur')
               /\ wipePendingSince' =
                    IF wipePendingSince = Null
                    THEN (IF Parses(cur.ts) THEN cur.ts ELSE 0) ELSE wipePendingSince
         /\ ~(inEncounter' /\ AllDead(partyAlive')) => wipePendingSince' = Null]_vars
\* C8 (as claimed): at the line where a wipe closes the pull, 3000 ms have
\* passed since the members were first all dead, or there is no next line,
\* or the next line's timestamp is more than 3000 ms later.
C8_GraceAsClaimed ==
    [][LineStep /\ impl = "split" /\ ev'.kind = "wipe" =>
         \/ wipePendingSince # Null /\ Parses(cur.ts)
               /\ cur.ts - wipePendingSince >= WIPE_GRACE_MS
         \/ cur'.k = 0
         \/ Parses(cur.ts) /\ Parses(cur'.ts) /\ cur'.ts - cur.ts > WIPE_GRACE_MS]_vars
\* a wipe has closed the pull of a two-member roster at a line whose next
\* line is more than 3000 ms later
C8_Witness ==
    /\ impl = "split" /\ ev.kind = "wipe" /\ ev.emitted /\ Cardinality(Roster) = 2
    /\ cur.k # 0 /\ Parses(cur.ts)
    /\ cur.ts - Last(encounters).end > WIPE_GRACE_MS

\* the line cur leaves the pull it belongs to open, or belongs to none
PullGoesOn == ev'.kind \in {"none", "skip"}

C11_ResetAfterTermination ==
    ev.kind \in {"kill", "wipe", "zone"} =>
        /\ ~inEncounter
        /\ partyAlive = AllAlive(Roster)
        /\ wipePendingSince = Null
        /\ deathLog = <<>> /\ reviveLog = <<>>
        /\ impl = "split" => currentLen = 0 /\ encounterStartTs = Null
\* a pull with a dead member was terminated and discarded, and the member
\* is marked alive again
C11_Witness ==
    /\ ev.kind \in {"kill", "wipe", "zone"} /\ ~ev.emitted
    /\ \E n \in Roster : ~ev.alive[n] /\ partyAlive[n]

\* C12 (as claimed): every encounter splitEncountersByBossOrWipe has
\* pushed, by whichever branch, holds at least minLines lines and has a
\* start and an end with end - start >= minDurMs.
C12_EmittedMeetsThresholds ==
    impl = "split" =>
        \A j \in 1..Len(encounters) :
            /\ encounters[j].n >= minLines
            /\ Parses(encounters[j].start) /\ Parses(encounters[j].end)
            /\ encounters[j].end - encounters[j].start >= minDurMs

\* the pull that is open when the log ends: its number of lines, and
\* whether it holds at least minLines lines and spans at least minDurMs
\* from its first line to the last timestamp read
OpenPullLen == IF impl = "split" THEN currentLen ELSE i - encounterStart
OpenPullMeets ==
    /\ inEncounter
    /\ OpenPullLen >= minLines
    /\ Parses(encounterStartTs)
    /\ IF impl = "split"
       THEN Parses(currentLastTs) /\ currentLastTs - encounterStartTs >= minDurMs
       ELSE clock - encounterStartTs >= minDurMs

\* C13 (as claimed): in both implementations, when the log ends with a
\* pull open that holds at least minLines lines and spans at least
\* minDurMs, that pull is pushed as the last encounter of the result.
C13_TrailingEmitted ==
    [][(pc = "run" /\ pc' = "done" /\ OpenPullMeets) =>
          /\ Len(encounters') = Len(encounters) + 1
          /\ Last(encounters').start = encounterStartTs]_vars
\* The trailing encounter as the code pushes it: only
\* splitEncountersByBossOrWipe pushes the pull that is open at the end of
\* the log, with the start of the pull and the timestamp of its last line;
\* scanLogForEncounters returns without it.
C13_TrailingOnlyInSplit ==
    [][(pc = "run" /\ pc' = "done") =>
          IF impl = "split" /\ OpenPullMeets
          THEN /\ Len(encounters') = Len(encounters) + 1
               /\ SubSeq(encounters', 1, Len(encounters)) = encounters
               /\ Last(encounters').start = encounterStartTs
               /\ Last(encounters').end = currentLastTs
               /\ Last(encounters').n = currentLen
          ELSE impl = "scan" => encounters' = encounters]_vars

\* the pull the line cur belongs to holds at least minLines lines and
\* spans at least minDurMs from its first line to cur
PullMeetsHere ==
    /\ currentLen + 1 >= minLines
    /\ Parses(encounterStartTs) /\ Parses(cur.ts)
    /\ cur.ts - encounterStartTs >= minDurMs

\* C14 (as claimed): in splitEncountersByBossOrWipe an opcode-01 line with
\* the zone-change, reset or shutdown phrasing that is read in an open pull
\* closes the pull, and the pull is pushed if and only if it holds at least
\* minLines lines and lasted at least minDurMs.
C14_ZoneEndsPull ==
    [][(LineStep /\ impl = "split" /\ inEncounter /\ CurLine.zone) =>
          /\ ~inEncounter'
          /\ IF PullMeetsHere
             THEN Len(encounters') = Len(encounters) + 1
             ELSE encounters' = encounters]_vars
\* The zone rule as the code applies it: the line closes the pull, by the
\* zone branch unless the wipe branch fires on it first, and the pull is
\* pushed when it meets the thresholds; it is also pushed, with a null
\* start, when its first line carries a timestamp that does not parse and
\* the line's own timestamp is at least minDurMs.
C14_ZoneEndsPullOrNullStart ==
    [][(LineStep /\ impl = "split" /\ inEncounter /\ CurLine.zone) =>
          /\ ~inEncounter' /\ ev'.kind \in {"zone", "wipe"}
          /\ PullMeetsHere => Len(encounters') = Len(encounters) + 1
          /\ Len(encounters') > Len(encounters) =>
                \/ PullMeetsHere
                \/ /\ ev'.kind = "zone" /\ ~Parses(encounterStartTs)
                   /\ Last(encounters').start = Null]_vars

\* C15 (as claimed): a parse-log request on a log in which no party
\* member is detected ends in an error outcome, the upload not being
\* marked complete.
C15_NoRosterIsAnError == (pc = "done" /\ partyArray = <<>>) => outcome = "error"
\* The outcome as the code has it: the handler that calls
\* scanLogForEncounters throws when no party member is detected; the one
\* that calls splitEncountersByBossOrWipe gets [] and, the log holding two
\* lines or more, marks the upload complete with zero encounters.
C15_NoRosterOutcome ==
    (pc = "done" /\ partyArray = <<>>) =>
        /\ encounters = <<>>
        /\ impl = "scan" => outcome = "error"
        /\ impl = "split" => (outcome = "error" => ev.kind = "noroster")
        /\ impl = "split" /\ cur.k = 0 => outcome = "error"

\* ---- what the claims say of a line of splitByDamageIdle's log: an
\* opcode 21/22 line, or an opcode-00 line with a hit or takes message
CombatFacts ==
    Tabulated([kd \in 1..Len(IdleLib) |->
        \/ IdleLib[kd].op \in {"21", "22"}
        \/ /\ IdleLib[kd].op = "00"
           /\ \E f \in Fields(IdleLib[kd]) : HitsForDamage(f) \/ TakesDamage(f)])
Combat == {jx \in 1..Len(idleLines) : CombatFacts[idleLines[jx].k]}
\* splitByDamageIdle has returned
IdleReturned == ipc = "done"

\* C16 (as claimed): for a log without combat lines splitByDamageIdle
\* returns exactly one encounter, whose lines are all the lines of the log
\* and whose start and end are the timestamps of the first and the last line.
C16_WholeLogWhenNoCombat ==
    (IdleReturned /\ Combat = {}) =>
        /\ Len(fights) = 1
        /\ fights[1].from = 1 /\ fights[1].to = Len(idleLines)
        /\ fights[1].start = idleLines[1].ts
        /\ fights[1].end = idleLines[Len(idleLines)].ts
\* The whole-log encounter as the code builds it: none for an empty log;
\* else one encounter of all the lines, whose start is the first line's
\* timestamp, or the time of the call when that does not parse, and whose
\* end is the last line's timestamp, or else the first line's, or else the
\* time of the call.
C16_WholeLogOrFallback ==
    (IdleReturned /\ Combat = {}) =>
        IF idleLines = <<>> THEN fights = <<>>
        ELSE /\ Len(fights) = 1
             /\ fights[1].from = 1 /\ fights[1].to = Len(idleLines)
             /\ fights[1].start =
                  IF Parses(idleLines[1].ts) THEN idleLines[1].ts ELSE WallClock
             /\ fights[1].end =
                  IF Parses(idleLines[Len(idleLines)].ts) THEN idleLines[Len(idleLines)].ts
                  ELSE IF Parses(idleLines[1].ts) THEN idleLines[1].ts ELSE WallClock

\* the combat lines in the order of the log, and the positions among them
\* at which a burst begins: the first, and each that comes more than idleMs
\* after the one before it
CombatSeq == InOrder(Combat)
CombatTs(p) == idleLines[CombatSeq[p]].ts
BurstStarts == {p \in 1..Len(CombatSeq) : p = 1 \/ CombatTs(p) - CombatTs(p - 1) > idleMs}
BurstFirst(j) == InOrder(BurstStarts)[j]
BurstLast(j) ==
    IF j = Cardinality(BurstStarts) THEN Len(CombatSeq) ELSE InOrder(BurstStarts)[j + 1] - 1

\* C17: for a log whose combat lines all carry a timestamp and form k
\* bursts (inside a burst consecutive combat lines are at most idleMs
\* apart, between two bursts the gap exceeds idleMs), splitByDamageIdle
\* returns exactly k encounters, the j-th running from the first to the
\* last combat line of the j-th burst and bounded by their timestamps.
C17_OneEncounterPerBurst ==
    (IdleReturned /\ Combat # {} /\ \A jx \in Combat : Parses(idleLines[jx].ts)) =>
        /\ Len(fights) = Cardinality(BurstStarts)
        /\ \A j \in 1..Len(fights) :
              /\ fights[j].from = CombatSeq[BurstFirst(j)]
              /\ fights[j].to = CombatSeq[BurstLast(j)]
              /\ fights[j].start = CombatTs(BurstFirst(j))
              /\ fights[j].end = CombatTs(BurstLast(j))
\* two bursts of two combat lines each were returned as two encounters
C17_Witness ==
    /\ IdleReturned /\ \A jx \in Combat : Parses(idleLines[jx].ts)
    /\ Len(fights) = 2
    /\ \A j \in 1..2 : fights[j].end > fights[j].start
    /\ fights[2].start - fights[1].end > idleMs

\* the position of e in the sequence q of distinct elements
PosIn(q, e) == CHOOSE p \in 1..Len(q) : q[p] = e
\* the step being taken is the fallback of classifyActors
FallbackStep == cpc # "done" /\ cpc' = "done" /\ (ver = "deno" => cpc = "npcs")

\* C18: when no actor met the boss thresholds and there is an add, the
\* fallback makes the add with the highest totalDamageTaken result.boss,
\* with classification boss, and takes it out of result.adds, where all the
\* other adds stay, in their order, with classification add.
C18_StrongestAddPromoted ==
    [][(FallbackStep /\ (\A a \in DOMAIN actors : ~MeetsBoss(a))
                     /\ (\E a \in DOMAIN actors : ~actors[a].usesJobSkill)) =>
          LET s == classified'.boss
              adds == classified.adds
              rest == classified'.adds
          IN  /\ classified.boss = NoActor /\ adds # <<>>
              /\ s \in Range(adds)
              /\ \A a \in Range(adds) :
                    actors[a].totalDamageTaken <= actors[s].totalDamageTaken
              /\ actors'[s].classification = "boss"
              /\ Range(rest) = Range(adds) \ {s} /\ Len(rest) = Len(adds) - 1
              /\ \A a, b \in Range(rest) :
                    PosIn(rest, a) < PosIn(rest, b) <=> PosIn(adds, a) < PosIn(adds, b)
              /\ \A a \in Range(rest) : actors'[a].classification = "add"]_vars
\* the older class has promoted an add that was not the first of three
C18_Witness ==
    /\ Returned /\ ver = "node" /\ \A a \in DOMAIN actors : ~MeetsBoss(a)
    /\ Len(classified.adds) = 2
    /\ classified.boss > classified.adds[1]
    /\ \A p \in 1..2 :
          actors[classified.adds[p]].totalDamageTaken
              < actors[classified.boss].totalDamageTaken

\* the non-player group, and the reference rule over it: damageRatio and
\* hitRatio are the actor's totals over the group's means, 0 when the mean is 0
NonPlayers == {a \in DOMAIN actors : ~actors[a].usesJobSkill}
RefRatioAtLeast(x, S, total, p, q) == total > 0 /\ x * Cardinality(S) * q >= p * total
RefBoss(a) ==
    LET dmg == actors[a].totalDamageTaken
        sd == sumDamageTaken(actors, NonPlayers)
        sh == sumHitCount(actors, NonPlayers)
        hitRatio12 == RefRatioAtLeast(actors[a].hitCount, NonPlayers, sh, 6, 5)
        hitRatio15 == RefRatioAtLeast(actors[a].hitCount, NonPlayers, sh, 3, 2)
        damageRatio2 == RefRatioAtLeast(dmg, NonPlayers, sd, 2, 1)
    IN  \/ damageRatio2 /\ hitRatio15 /\ dmg > 10000
        \/ dmg > 50000 /\ hitRatio12
\* the step being taken classifies the non-player actor a while no boss
\* has been found, so that the actor's classification after the step is the
\* per-actor decision
DecisionStep(a) ==
    /\ classified.boss = NoActor /\ a \in NonPlayers
    /\ IF ver = "deno" THEN cpc = "npcs" /\ at <= Len(npcs) /\ npcs[at] = a
       ELSE cpc = "start" /\ at = a

\* C19 (as claimed): in both classes the per-actor decision for a
\* non-player actor is boss exactly when the reference rule says so, and
\* add otherwise.
C19_DecisionIsReferenceRule ==
    [][\A a \in DOMAIN actors :
          DecisionStep(a) =>
             actors'[a].classification = (IF RefBoss(a) THEN "boss" ELSE "add")]_vars
\* The decision as the code takes it: classifySingleNPC of
\* actor-classifier-deno.ts is the reference rule; classifySingleActor of
\* the older class never calls boss an actor the reference rule calls add
\* when the map holds no player.
C19_DenoIsReferenceRule ==
    [][\A a \in DOMAIN actors :
          DecisionStep(a) =>
             /\ ver = "deno" =>
                  actors'[a].classification = (IF RefBoss(a) THEN "boss" ELSE "add")
             /\ (ver = "node" /\ NonPlayers = DOMAIN actors) =>
                  (actors'[a].classification = "boss" => RefBoss(a))]_vars

\* C20 (as claimed): an actor outside the players with totalDamageTaken
\* above 50000 and a hit count of at least 1.2 times the mean of the
\* non-player group carries the classification boss in the result.
C20_HighDamageIsBoss ==
    Returned =>
        \A a \in NonPlayers :
            (/\ actors[a].totalDamageTaken > 50000
             /\ RefRatioAtLeast(actors[a].hitCount, NonPlayers,
                                sumHitCount(actors, NonPlayers), 6, 5))
                => actors[a].classification = "boss"
\* The result as actor-classifier-deno.ts gives it: such an actor is
\* result.boss unless an actor with at least as much damage taken is.
C20_DenoHighDamageIsBossUnlessOutranked ==
    (Returned /\ ver = "deno") =>
        \A a \in NonPlayers :
            (/\ actors[a].totalDamageTaken > 50000
             /\ RefRatioAtLeast(actors[a].hitCount, NonPlayers,
                                sumHitCount(actors, NonPlayers), 6, 5))
                => \/ classified.boss = a
                   \/ /\ classified.boss # NoActor
                      /\ actors[classified.boss].totalDamageTaken
                            >= actors[a].totalDamageTaken
                      /\ actors[a].classification = "add"

\* the actor a's observed skill set includes "Fast Blade"
HasFastBlade(a) == \E p \in DOMAIN actors[a].skillsUsed : actors[a].skillsUsed[p] = "Fast Blade"
\* the actor a is a player of the result, and was never taken for an NPC
PlayerOnly(a) ==
    /\ classified.boss # a /\ a \notin Range(classified.adds)
    /\ actors[a].classification \notin {"boss", "add"}
    /\ Returned => /\ actors[a].classification = "player"
                   /\ a \in Range(classified.partyMembers)
\* the positions of the actor a's skills that the job named abbr lists
SkillsOf(a, abbr) ==
    {p \in DOMAIN actors[a].skillsUsed :
        \E j \in DOMAIN JOBS_DATA :
            /\ JOBS_DATA[j].abbreviation = abbr
            /\ \E sk \in JOBS_DATA[j].skills :
                   ToLower(sk) = ToLower(SkillText[actors[a].skillsUsed[p]])}

C22_Idempotent ==
    (run = 2 /\ Returned) =>
        /\ classified = firstRun.result
        /\ actors = firstRun.actors
\* a second call has returned a boss, two adds and two party members
C22_Witness ==
    /\ run = 2 /\ Returned
    /\ classified.boss # NoActor
    /\ Len(classified.adds) = 2 /\ Len(classified.partyMembers) = 2
    /\ actors[classified.adds[1]].totalDamageTaken
          < actors[classified.adds[2]].totalDamageTaken

\* the request r has returned
HDone(r) == response[r] # NoResponse
\* what the request r returns when it runs alone: 500 when one of its steps
\* fails, and otherwise the ids of the headers of its fights
ResultAlone(r) ==
    /\ response[r].status = (IF failAt[r] = "none" THEN 200 ELSE 500)
    /\ Len(response[r].encounter_ids) = (IF failAt[r] = "none" THEN nFights[r] ELSE 0)
    /\ \A p \in DOMAIN response[r].encounter_ids :
          /\ encRows[response[r].encounter_ids[p]].upload_id = r
          /\ encRows[response[r].encounter_ids[p]].fight = p

\* C23 (as claimed): under every interleaving of two parse-log requests
\* each request's breadcrumbs and its status write go to its own upload row
\* only, and each request returns what it returns alone.
C23_NoSharedState ==
    /\ \A u \in Requests :
          /\ uploads[u].errorBy \in {NoRequest, u}
          /\ uploads[u].statusBy \in {NoRequest, u}
    /\ \A r \in Requests :
          HDone(r) =>
             /\ ResultAlone(r)
             /\ failAt[r] = "none" => uploads[r].status = "complete"
\* What the handler does keep apart: the responses, and the upload_id of
\* the encounter headers.
C23_ResponsesAsAlone ==
    \A r \in Requests : HDone(r) => ResultAlone(r)

\* ---- what the claims say of a line of the damage scan's encounter: the
\* valid match it holds, if any
NoDamage == [valid |-> FALSE, attacker |-> <<>>, target |-> <<>>, amount |-> 0]
DamageIn(attacker, target, amount) ==
    [valid |-> TRUE, attacker |-> attacker, target |-> target, amount |-> amount]
DmgFacts ==
    << DamageIn(NameP1, NameTitan, 120),       \* Al Bo hits Titan for 120 damage.
       DamageIn(NameUnknown, NameTitan, 50),   \* Titan takes 50 damage.
       NoDamage,                               \* an amount of 0
       NoDamage,                               \* no target
       DamageIn(NameUnknown, NameTitan, 70),   \* Critical! Titan takes 70 damage.
       NoDamage,                               \* not a chat line
       DamageIn(NameTitan, NameP1, 30),        \* Titan HITS Al Bo for 030 damage
       NoDamage >>                             \* an amount that is no number
\* the sum of the values of the function f
RECURSIVE Total(_)
Total(f) ==
    IF DOMAIN f = {} THEN 0
    ELSE LET e == CHOOSE e \in DOMAIN f : TRUE
         IN  f[e] + Total([x \in DOMAIN f \ {e} |-> f[x]])
\* the field of the actor named n, 0 when the map does not hold the actor
StatOf(stats, n, field) == IF n \in DOMAIN stats THEN stats[n][field] ELSE 0

\* C24: in the damage scan every valid hit/takes match records exactly one
\* event, adds its amount to the attacker's totalDamageDealt and to the
\* target's totalDamageTaken and 1 to the target's hitCount, and any other
\* line changes nothing; so the damage dealt, the damage taken and the
\* event amounts have the same sum, the hit counts sum to the number of
\* events, and every event amount is a positive integer.
C24_ScanAccounting ==
    /\ [](/\ Total([n \in DOMAIN actorStats |-> actorStats[n].totalDamageDealt])
                = Total([p \in DOMAIN events |-> events[p].amount])
          /\ Total([n \in DOMAIN actorStats |-> actorStats[n].totalDamageTaken])
                = Total([p \in DOMAIN events |-> events[p].amount])
          /\ Total([n \in DOMAIN actorStats |-> actorStats[n].hitCount]) = Len(events)
          /\ \A p \in DOMAIN events : events[p].amount \in Nat \ {0})
    /\ [][(dpc = "scan" /\ dpos' = dpos + 1) =>
            LET d == DmgFacts[dmgLog[dpos]]
                others == (DOMAIN actorStats') \ {d.attacker, d.target}
                dealt(n) == IF n = d.attacker THEN d.amount ELSE 0
                taken(n) == IF n = d.target THEN d.amount ELSE 0
                hit(n) == IF n = d.target THEN 1 ELSE 0
            IN  IF d.valid
                THEN /\ Len(events') = Len(events) + 1
                     /\ SubSeq(events', 1, Len(events)) = events
                     /\ events'[Len(events')].amount = d.amount
                     /\ events'[Len(events')].tmpName = d.attacker
                     /\ DOMAIN actorStats' = DOMAIN actorStats \cup {d.attacker, d.target}
                     /\ \A n \in DOMAIN actorStats' :
                           /\ actorStats'[n].totalDamageDealt
                                 = StatOf(actorStats, n, "totalDamageDealt") + dealt(n)
                           /\ actorStats'[n].totalDamageTaken
                                 = StatOf(actorStats, n, "totalDamageTaken") + taken(n)
                           /\ actorStats'[n].hitCount
                                 = StatOf(actorStats, n, "hitCount") + hit(n)
                ELSE UNCHANGED <<actorStats, events>>]_vars
\* three events were recorded, one of them of an actor hit by the one it
\* had hit, and a line with an amount of 0 was passed over
C24_Witness ==
    /\ dpc = "classify" /\ Len(events) = 3
    /\ \E p \in DOMAIN dmgLog : dmgLog[p] = 3
    /\ \E n \in DOMAIN actorStats :
          actorStats[n].totalDamageDealt > 0 /\ actorStats[n].totalDamageTaken > 0

\* ---- what the claims say of a log of parsePartyMembers: the t-th player's
\* name, and the first of the first 200 lines that is that player's 03 line
PlayerName(t) == <<AlphaU[t], "a", " ", "Z", "o">>
FirstAmong200(t) ==
    LET at03 == {j \in 1..Len(partyLog) : j <= 200 /\ partyLog[j] = t}
    IN  IF at03 = {} THEN 0 ELSE MinOf(at03)
\* the players that have a 03 line among the first 200 lines, fewer than 8
\* others having one before
FirstEight ==
    {t \in 1..NNames :
        /\ FirstAmong200(t) > 0
        /\ Cardinality({o \in 1..NNames :
               FirstAmong200(o) > 0 /\ FirstAmong200(o) < FirstAmong200(t)}) < 8}

\* C25: parsePartyMembers returns at most 8 names, all distinct, in the
\* order of their first 03 lines, each of a 03 line among the first 200
\* lines; a line after the 200th, or a 03 line after the one that gave the
\* 8th name, gives no member.
C25_PartyOfFirst200 ==
    /\ Len(partySet) <= 8
    /\ \A n, m \in DOMAIN partySet : n # m => partySet[n] # partySet[m]
    /\ \A n \in DOMAIN partySet :
          \E t \in FirstEight :
             /\ partySet[n] = PlayerName(t)
             /\ Cardinality({o \in FirstEight : FirstAmong200(o) < FirstAmong200(t)}) = n - 1
    /\ ppc = "done" => Len(partySet) = Cardinality(FirstEight)
\* four names were returned from a log of more than 205 lines whose 03
\* lines name ten players, one of them twice among the first 200 lines
C25_Witness ==
    /\ ppc = "done" /\ Len(partySet) = 4
    /\ Len(partyLog) > 205
    /\ \E j \in 1..200 : \E m \in 1..(j - 1) : partyLog[j] > 0 /\ partyLog[m] = partyLog[j]

\* ---- what the claims say of a line of boss-HP telemetry: whose HP it
\* reports, and the current HP it reports (Null: none)
HpFacts ==
    << [of |-> "Titan", hp |-> 500],
       [of |-> "Titan", hp |-> 0],
       [of |-> "Titan", hp |-> 137],
       [of |-> "Al Bo", hp |-> 20],
       [of |-> "Titan", hp |-> Null],      \* the field of the current HP is empty
       [of |-> "none", hp |-> Null],       \* an ability line
       [of |-> "none", hp |-> Null],       \* a line cut short
       [of |-> "Titan", hp |-> Null] >>    \* the current HP is no number
\* the current HPs the boss's telemetry reports between the encounter's
\* start line and end line
BossHpsInRange ==
    {HpFacts[hpLog[j]].hp :
        j \in {m \in (hpStart + 1)..(hpEnd + 1) :
                  HpFacts[hpLog[m]].of = "Titan" /\ HpFacts[hpLog[m]].hp # Null}}

\* C26 (as claimed): for an encounter whose boss is known, lowestBossHp is
\* the minimum current HP over the boss's telemetry lines between the
\* encounter's start line and end line (null when there is none), whatever
\* the telemetry outside that range; and lowestBossHpPct is 0 when that
\* telemetry reports a current HP of 0.
C26_LowestBossHpInRange ==
    (bpc = "pushed" /\ encounterBoss = NameTitan) =>
        /\ hpSummary.lowestBossHp =
              (IF BossHpsInRange = {} THEN Null ELSE MinOf(BossHpsInRange))
        /\ 0 \in BossHpsInRange => hpSummary.lowestBossHpPct = 0
\* The same without the telemetry lines whose current-HP field is empty.
C26_LowestBossHpOfNumericFields ==
    (bpc = "pushed" /\ encounterBoss = NameTitan /\ \A j \in DOMAIN hpLog : hpLog[j] # 5) =>
        /\ hpSummary.lowestBossHp =
              (IF BossHpsInRange = {} THEN Null ELSE MinOf(BossHpsInRange))
        /\ 0 \in BossHpsInRange => hpSummary.lowestBossHpPct = 0
        /\ (hpSummary.lowestBossHp = 137 /\ hpSummary.maxHp = 1000)
              => hpSummary.lowestBossHpPct = 137

\* the combat lines whose timestamp parses, and the pairs of them with no
\* other such line in between
TimedCombat == {jx \in Combat : Parses(idleLines[jx].ts)}
NextTimed(p, q) == p < q /\ \A m \in TimedCombat : ~(p < m /\ m < q)
\* lines p and q are returned in one encounter
SameFight(p, q) == \E j \in 1..Len(fights) : fights[j].from <= p /\ q <= fights[j].to

\* C27 (as claimed): a line whose timestamp does not parse takes no part in
\* the boundary and timing decisions of splitByDamageIdle: two combat lines
\* with a timestamp, with none such between them, are cut apart exactly
\* when the second comes more than idleMs after the first, whatever lines
\* without a timestamp lie between them; and every encounter's start and
\* end are timestamps of lines of the log.
C27_UnparsableLinesExcluded ==
    (IdleReturned /\ Combat # {}) =>
        /\ \A p \in TimedCombat : \A q \in TimedCombat :
              NextTimed(p, q) =>
                  (SameFight(p, q) <=> idleLines[q].ts - idleLines[p].ts <= idleMs)
        /\ \A j \in 1..Len(fights) :
              /\ \E jx \in 1..Len(idleLines) :
                    Parses(idleLines[jx].ts) /\ fights[j].start = idleLines[jx].ts
              /\ \E jx \in 1..Len(idleLines) :
                    Parses(idleLines[jx].ts) /\ fights[j].end = idleLines[jx].ts
\* The cuts alone.
C27_NoCutByUnparsableLine ==
    (IdleReturned /\ Combat # {}) =>
        \A p \in TimedCombat : \A q \in TimedCombat :
            NextTimed(p, q) =>
                (SameFight(p, q) <=> idleLines[q].ts - idleLines[p].ts <= idleMs)
\* The same for the logs whose combat lines all carry a timestamp.
C27_HoldsWhenCombatIsTimed ==
    (IdleReturned /\ Combat # {} /\ TimedCombat = Combat) =>
        /\ \A p \in TimedCombat : \A q \in TimedCombat :
              NextTimed(p, q) =>
                  (SameFight(p, q) <=> idleLines[q].ts - idleLines[p].ts <= idleMs)
        /\ \A j \in 1..Len(fights) :
              \E jx \in 1..Len(idleLines) : \E jy \in 1..Len(idleLines) :
                  /\ Parses(idleLines[jx].ts) /\ fights[j].start = idleLines[jx].ts
                  /\ Parses(idleLines[jy].ts) /\ fights[j].end = idleLines[jy].ts

\* ---- what the claims say of a line of the names' logs: whether the
\* library matches it, and whether a fallback pattern does
NameFacts ==
    << [library |-> FALSE, fallback |-> FALSE],     \* Al Bo's Cure
       [library |-> TRUE, fallback |-> FALSE],      \* an action on Garuda
       [library |-> TRUE, fallback |-> TRUE],       \* "Garuda is defeated."
       [library |-> FALSE, fallback |-> FALSE],     \* an action on Titan
       [library |-> FALSE, fallback |-> TRUE],      \* "Al Bo defeats Titan."
       [library |-> FALSE, fallback |-> TRUE],      \* "Al Bo hits Titan for 120 damage."
       [library |-> TRUE, fallback |-> FALSE] >>    \* the duty's name
\* the lines scanned for the names: all by the split, the first 200 by the scan
ScannedForNames ==
    IF nmImpl = "split" THEN DOMAIN nmLog ELSE {j \in DOMAIN nmLog : j <= 200}
NothingMatches ==
    \A j \in ScannedForNames : ~NameFacts[nmLog[j]].library /\ ~NameFacts[nmLog[j]].fallback

\* C28 (as claimed): when neither the library nor the fallback patterns
\* match any scanned line, an encounter pushed by Strategy B carries the
\* instance "Unknown Duty" and the boss "Unknown Boss".
C28_UnknownNamesByDefault ==
    (npc = "pushed" /\ NothingMatches) => pushed = Unknowns
\* The same for splitEncountersByBossOrWipe alone.
C28_SplitDefaultsToUnknowns ==
    (npc = "pushed" /\ nmImpl = "split" /\ NothingMatches) => pushed = Unknowns

\* ---- the metrics and the events of an encounter
\* the damage the encounter's events give the actor of a metrics row
DamageOfActor(id) ==
    LET Amount(j) == IF actorRows[id] = ready[j].tmpName THEN ready[j].amount ELSE 0
        sumTo[j \in 0..Len(ready)] == IF j = 0 THEN 0 ELSE sumTo[j - 1] + Amount(j)
    IN  sumTo[Len(ready)]
\* the encounter is closed: its start and its end are timestamps
Closed == encRec.start_ts # Null /\ encRec.end_ts # Null
\* round((end - start) / 1000) for the halves of the model's timestamps
RoundedSeconds ==
    LET d == encRec.end_ts - encRec.start_ts
    IN  CHOOSE n \in -2..3 : 2 * d >= 2000 * n - 1000 /\ 2 * d < 2000 * n + 1000
\* the events table holds every event of the encounter once
EventsOnce == Len(eventRows) = Len(ready)

C30_EventsInsertedOnce ==
    /\ Len(eventRows) <= Len(ready)
    /\ \A m \in metricRows : m.total <= DamageOfActor(m.actor_id)

\* ---- C31: the alive map at the line that opens a pull

\* the line just processed opened an encounter
OpenedHere == pc = "run" /\ ev.opened

\* C31 (as claimed): in Strategy B, at every line where an encounter opens
\* every roster member is marked alive: a death line seen while no encounter
\* is open does not carry over into the next pull's alive map.
C31_AllAliveAtOpen ==
    OpenedHere => \A n \in DOMAIN ev.alive : ev.alive[n]
\* scanLogForEncounters alone: the line that opens a pull sets the map to
\* all-alive, and no line read outside an encounter touches the map
C31_ScanAllAliveAtOpen ==
    (impl = "scan" /\ OpenedHere) =>
        /\ ev.alive = AllAlive(Canonical(partyArray))
        /\ partyAlive = AllAlive(Canonical(partyArray))
\* a pull of the scan opened after an earlier pull had ended
C31_ScanWitness ==
    /\ impl = "scan" /\ OpenedHere /\ Len(encounters) >= 1
    /\ \A n \in DOMAIN partyAlive : partyAlive[n]

\* ---- C32: the keys of the alive map

\* the alive map holds the canonical roster's names and no other
KeysAreRoster == DOMAIN partyAlive = Canonical(partyArray)

\* C32 (as claimed): in Strategy B a death or revive line naming an actor
\* that is not a roster member leaves the alive map unchanged: in every
\* reachable state the key set of the alive map is the canonical roster.
C32_AliveKeysAreRoster ==
    partyArray # <<>> => KeysAreRoster
\* splitEncountersByBossOrWipe alone: the key set is the roster in every
\* state, and a line that names no roster member as dead or revived leaves
\* the map as it was, unless the line ends the pull and the map is reset
C32_SplitAliveKeysAreRoster ==
    (impl = "split" /\ partyArray # <<>>) =>
        /\ KeysAreRoster
        /\ DOMAIN ev.alive = Canonical(partyArray)
\* splitEncountersByBossOrWipe: a line that names no roster member as dead
\* or revived leaves the alive map as the line found it
C32_SplitFrame ==
    [][(/\ impl = "split" /\ pc = "run" /\ cur.k # 0 /\ partyArray # <<>>
        /\ CurLine.nf >= 2
        /\ CurLine.sDeath \notin DOMAIN partyAlive
        /\ CurLine.sRevive \notin DOMAIN partyAlive)
       => ev'.alive = partyAlive]_vars

\* ---- C33: the wipe debounce of splitEncountersByBossOrWipe

\* the line cur is read by splitEncountersByBossOrWipe while a wipe is pending
PendingStep == LineStep /\ impl = "split" /\ CurLine.nf >= 2 /\ wipePendingSince # Null

timesIn(res, a) ==
    (IF res.boss = a THEN 1 ELSE 0)
      + Cardinality({p \in DOMAIN res.adds : res.adds[p] = a})
      + Cardinality({p \in DOMAIN res.partyMembers : res.partyMembers[p] = a})

\* C34: when classifyActors returns (either class, first or second call on
\* the map), every actor of the input map appears exactly once in
\* result.boss, result.adds and result.partyMembers taken together, the
\* result holds no other actor, and the actor's classification is 'boss'
\* iff it is result.boss, 'add' iff it is in adds, 'player' iff it is in
\* partyMembers.
C34_ResultPartitionsTheMap ==
    cpc = "done" =>
        /\ \A a \in DOMAIN actors :
              /\ timesIn(classified, a) = 1
              /\ actors[a].classification = "boss" <=> classified.boss = a
              /\ actors[a].classification = "add" <=> a \in Range(classified.adds)
              /\ actors[a].classification = "player" <=> a \in Range(classified.partyMembers)
        /\ ({classified.boss} \ {NoActor}) \cup Range(classified.adds)
              \cup Range(classified.partyMembers) = DOMAIN actors
\* a map of five actors came back with a boss, two adds or more and a
\* player, after two of its actors had met a boss test
C34_Witness ==
    /\ cpc = "done" /\ ver = "deno" /\ Len(actors) = 5
    /\ classified.boss # NoActor
    /\ Len(classified.adds) >= 2 /\ Len(classified.partyMembers) >= 1
    /\ \E a \in Range(classified.adds) :
          classifySingleNPC(actors, a, Range(npcs)) = "boss"

\* ---- C35: the encounters of splitByDamageIdle as line ranges

\* the active lines, as the first loop of splitByDamageIdle collects them
Active == Range(idxs)
\* the time the cut test reads from an active line: 0 when the timestamp
\* field is missing or does not parse
ActiveMs(jx) == IF Parses(idleLines[jx].ts) THEN idleLines[jx].ts ELSE 0
\* the encounters whose line range holds line jx
FightsOf(jx) == {j \in 1..Len(fights) : fights[j].from <= jx /\ jx <= fights[j].to}

\* C35: when at least one active line exists, the encounters returned by
\* splitByDamageIdle are non-empty contiguous line ranges, pairwise disjoint
\* and in increasing line order; each starts and ends on an active line;
\* every active line belongs to exactly one encounter; and two consecutive
\* active lines share an encounter iff the time of the second is at most
\* idleMs after the time of the first (a gap of exactly idleMs does not
\* split), the time of a line being its timestamp as the cut test reads it.
C35_FightsAreRangesOfActiveLines ==
    (IdleReturned /\ idxs # <<>>) =>
        /\ Len(fights) >= 1
        /\ \A j \in 1..Len(fights) :
              /\ fights[j].from <= fights[j].to
              /\ fights[j].from \in Active /\ fights[j].to \in Active
              /\ j < Len(fights) => fights[j].to < fights[j + 1].from
        /\ \A jx \in Active : Cardinality(FightsOf(jx)) = 1
        /\ \A kx \in 1..(Len(idxs) - 1) :
              (FightsOf(idxs[kx]) = FightsOf(idxs[kx + 1]))
                 <=> (ActiveMs(idxs[kx + 1]) - ActiveMs(idxs[kx]) <= idleMs)
\* two encounters were returned, the first holding two active lines that
\* are exactly idleMs apart with a line that is not active between them
C35_Witness ==
    /\ IdleReturned /\ Len(fights) = 2 /\ Len(idxs) = 3
    /\ fights[1].to - fights[1].from = 2
    /\ ActiveMs(idxs[2]) - ActiveMs(idxs[1]) = idleMs
    /\ \A jx \in Active : Parses(idleLines[jx].ts)

\* ---- C36: the job of an actor whose skills match several jobs

\* how many of the actor's skills the job j of the table lists
matchedSkills(act, j) ==
    Cardinality({p \in DOMAIN act.skillsUsed : j \in JobsListing[act.skillsUsed[p]]})
\* the actor carries the abbreviation and the role of a job that no other
\* job of the table outdoes in matched skills
HasBestJob(act) ==
    \E j \in DOMAIN JOBS_DATA :
        /\ act.job = JOBS_DATA[j].abbreviation /\ act.role = JOBS_DATA[j].role
        /\ matchedSkills(act, j) >= 1
        /\ \A k \in DOMAIN JOBS_DATA : matchedSkills(act, k) <= matchedSkills(act, j)

\* C36 (as claimed): the player pass gives an actor whose skills match
\* several jobs the job with the greatest number of matched skills of the
\* actor's skill set, and that job's role; a job with fewer matches is
\* never chosen over one with more.
C36_JobOfMostMatches ==
    cpc = "done" =>
        \A a \in DOMAIN actors :
            actors[a].classification = "player" => HasBestJob(actors[a])
\* The same of the classifyActors of actor-classifier-deno.ts alone.
C36_DenoJobOfMostMatches ==
    (ver = "deno" /\ cpc = "done") =>
        \A a \in DOMAIN actors :
            actors[a].classification = "player" => HasBestJob(actors[a])
\* the deno class gave WHM to an actor whose first skill is a PLD skill
C36_DenoWitness ==
    /\ ver = "deno" /\ cpc = "done"
    /\ \E a \in DOMAIN actors :
          /\ actors[a].skillsUsed = <<"Fast Blade", "Cure", "Raise">>
          /\ actors[a].job = "WHM" /\ actors[a].role = "healer"

\* ---- C37: what the stage-2 detail parse classifies

\* the observed actors that the scan saw as attackers
Attackers == {n \in DOMAIN actorStats : actorStats[n].totalDamageDealt > 0}

\* C37: in the stage-2 detail parse the only skill name recorded for an
\* actor or an event is "chat", which no job of the table lists; so the
\* classification the handler stores has an empty partyMembers list, and
\* every observed actor, the placeholder attacker "Unknown" among them, is
\* classified boss or add.
C37_DetailParseFindsNoPlayer ==
    /\ \A n \in DOMAIN actorStats : actorStats[n].skillsUsed \subseteq {"chat"}
    /\ \A p \in DOMAIN events : events[p].skill = "chat"
    /\ findJobBySkillName("chat") = NoJob
    /\ dpc \in {"classifying", "stored"} =>
          /\ Len(actors) = Cardinality(DOMAIN actorStats)
          /\ classified.partyMembers = <<>>
          /\ \A a \in DOMAIN actors : actors[a].job = "none" /\ actors[a].role = "none"
    /\ dpc = "stored" =>
          \A a \in DOMAIN actors : actors[a].classification \in {"boss", "add"}
\* the classification of three observed actors was stored, "Unknown" and
\* an attacker that was hit itself among them, with a boss and two adds
C37_Witness ==
    /\ dpc = "stored" /\ Len(actors) = 3
    /\ NameUnknown \in Attackers
    /\ \E n \in Attackers : actorStats[n].totalDamageTaken > 0
    /\ classified.boss # NoActor /\ Len(classified.adds) = 2

\* ---- C38: the upload's status once its request has returned

\* a step of the request r
HStep(r) ==
    \/ HReceive(r) \/ HNote(r) \/ HAwait(r)
    \/ HInsert(r) \/ HComplete(r) \/ HReturn(r)
\* The isolate resumes every request whose awaited call has settled, and
\* every call of the handler settles: a request that can take a step
\* takes one.
SpecHandlerFair == SpecHandler /\ \A r \in Requests : WF_vars(HStep(r))

\* C38 (as claimed): every parse-log invocation that has set its upload's
\* status to "parsing" eventually leaves that upload in a status other
\* than "parsing", and no upload is in "parsing" once its request has
\* returned.
C38_ParsingIsLeft ==
    \A r \in Requests :
        /\ (hpc[r] >= 1) ~> (uploads[r].status # "parsing")
        /\ [](HDone(r) => uploads[r].status # "parsing")
\* What does hold: every invocation returns, with 200 exactly when no step
\* of it failed; the status "complete" is written only by a request all of
\* whose encounter headers are inserted; and a request that failed writes
\* no status at all.
C38_EveryRequestReturns ==
    /\ \A r \in Requests : <>HDone(r)
    /\ [](\A r \in Requests :
            /\ HDone(r) => (response[r].status = 200 <=> failAt[r] = "none")
            /\ HDone(r) => (response[r].status = 500 <=> failAt[r] # "none")
            /\ (HDone(r) /\ failAt[r] # "none") =>
                  \A u \in Requests : ~(uploads[u].status = "complete" /\ uploads[u].statusBy = r))
    /\ [](\A u \in Requests :
            uploads[u].status = "complete" =>
                LET by == uploads[u].statusBy
                IN  Cardinality({p \in DOMAIN encRows : encRows[p].upload_id = by})
                        = nFights[by])

\* ---- C39: stripServer on the name it returned

\* the name s begins or ends with white space
Untrimmed(s) == s # <<>> /\ (s[1] = " " \/ s[Len(s)] = " ")

\* C39: stripServer is idempotent: for every name the call on the name it
\* returned returns that name again; the name returned holds at most two
\* letters A-Z and neither begins nor ends with white space; so the
\* canonical form of a name that is canonical already is that name.
C39_StripServerIdempotent ==
    /\ spc \in {"once", "done"} =>
          /\ CapCount(stripped, Len(stripped)) <= 2
          /\ ~Untrimmed(stripped)
    /\ spc = "done" => restripped = stripped
\* a name of six characters that begins with a space and holds three
\* capitals was cut before the third and trimmed at both ends, and the
\* second call returned the same name
C39_Witness ==
    /\ spc = "done" /\ Len(rawName) = 6 /\ rawName[1] = " "
    /\ CapCount(rawName, 6) >= 3
    /\ Len(stripped) = 3 /\ stripped[2] = " " /\ restripped = stripped
    /\ \E ix \in 3..6 :
          /\ rawName[ix] \in UpperChars /\ CapCount(rawName, ix) = 3
          /\ rawName[ix - 1] = " "

====
